---- MODULE Spec2Model ----
(***************************************************************************)
(* Host side of the Nugget OS transport (libnos_transport/transport.c):    *)
(* the retrying datagram layer and the call state machine of               *)
(* nos_call_application, run against a nondeterministic device.            *)
(*                                                                         *)
(* One action is one bus operation (one nos_device_read/nos_device_write)  *)
(* together with all the local computation of the caller up to the next    *)
(* bus operation or the return of nos_call_application.                    *)
(***************************************************************************)
EXTENDS Integers, Naturals, Sequences, FiniteSets, TLC

(***************************************************************************)
(* Bounds of the model.                                                    *)
(***************************************************************************)
MaxCalls == 2

(***************************************************************************)
(* Program constants.                                                      *)
(***************************************************************************)
MAX_DEVICE_TRANSFER == 2044
RETRY_COUNT == 25
CRC_RETRY_COUNT == 3

GET_STATUS_OK == 0
GET_STATUS_ERROR_IO == -1
GET_STATUS_ERROR_PROTOCOL == -2
\* get_status has not returned: its loop goes round again (line 177, continue)
GET_STATUS_CONTINUE == 1

\* errno values used by the datagram layer
EAGAIN == 11
EIO == 5
ETIMEDOUT == 110

\* application.h / transport.h (declarations only; values as in Nugget OS)
\* a 32-bit status word is kept as its two bit fields: done is bit 31
\* (APP_STATUS_DONE), code is bits 0..30 (APP_STATUS_CODE)
APP_STATUS_IDLE == [done |-> FALSE, code |-> 0]
APP_SUCCESS == 0
APP_ERROR_IO == 4
APP_ERROR_CHECKSUM == 6
APP_SPECIFIC_ERROR == 32
TRANSPORT_LEGACY == 0
TRANSPORT_V1 == 1
TRANSPORT_STATUS_MAGIC == "TRANSPORT_STATUS_MAGIC"

U16 == 65536

APP_STATUS_CODE(s) == s.code

\* status & APP_STATUS_DONE
HasDone(s) == s.done

\* the status word APP_STATUS_DONE | code
DoneWith(code) == [done |-> TRUE, code |-> code]

MIN(a, b) == IF a < b THEN a ELSE b

\* application.h: the ids of the applications, and nugget's functions
APP_ID_NUGGET == 0
APP_ID_TPM_REGISTER == 212
NUGGET_PARAM_VERSION == 0
NUGGET_PARAM_FLASH_BLOCK == 1

(***************************************************************************)
(* application.h: the 32-bit command word, kept as its fields.  CMD_ID is  *)
(* the app id, CMD_PARAM / CMD_SET_PARAM the 16-bit parameter, the rest    *)
(* are the flag bits.                                                      *)
(***************************************************************************)
CommandWord(id, is_read, is_data, transport, more, param) ==
    [id |-> id, is_read |-> is_read, is_data |-> is_data, transport |-> transport,
     more |-> more, param |-> param]

\* line 282: CMD_ID(app_id) | CMD_PARAM(params)
GoCommand(c) == CommandWord(c.app_id, FALSE, FALSE, FALSE, FALSE, c.params)

(***************************************************************************)
(* crc16.h.  A datagram's bytes are abstracted to (length, d) where d = 0  *)
(* stands for the bytes as the device produced them and d = 1 for bytes    *)
(* damaged on the bus; the checksum is a 16-bit running sum over the       *)
(* stream, so it depends on the concatenation and not on the chunking.     *)
(***************************************************************************)
crc16_update(d, len, crc) == (crc + 3 * len + 17 * d) % U16

\* crc16 / crc16_update over the request (lines 297-302): the checksum of a
\* stream made of a 16-bit length, the first nargs bytes of the args buffer, a
\* 16-bit hint and a command word is kept as that stream, so that two
\* checksums are equal exactly when they cover the same bytes
crc16_request(len16, nargs, hint, command) == <<len16, nargs, hint, command>>

\* crc16 over a status record whose crc field has been zeroed
crc16_status(rec) ==
    (rec.version + 5 * (rec.status.code % U16) + (IF rec.status.done THEN 13 ELSE 0)
        + 7 * rec.reply_len + 11 * rec.reply_crc + 1) % U16

(***************************************************************************)
(* Inputs of the model.                                                    *)
(***************************************************************************)
\* arg_len values (uint32_t): none, exactly one MTU, three datagrams, and two
\* values beyond 16 bits (2^16 and 2^16 + MTU + 1)
ArgLens == {0, 2044, 4089, 65536, 67581}
\* *reply_len on entry (the caller's capacity)
Caps == {0, 2, 4089}
\* reply_len the device reports
ReplyLens == {0, 3, 2045}
\* status codes an application finishes with
DoneCodes == {APP_SUCCESS, APP_ERROR_CHECKSUM, APP_SPECIFIC_ERROR}
\* a status word that is neither idle nor done
DEV_WORKING == [done |-> FALSE, code |-> 1]
\* what nos_device_read / nos_device_write can return
DevReturns == {0, EIO, ETIMEDOUT}
\* (args is not null, arg_len) of a call
ArgChoices == {<<TRUE, n>> : n \in ArgLens} \cup {<<FALSE, 0>>, <<FALSE, 2044>>}
\* (reply is not null, reply_len is not null, *reply_len) of a call
ReplyChoices ==
    {<<TRUE, TRUE, cap>> : cap \in Caps}
    \cup {<<FALSE, TRUE, 0>>, <<FALSE, TRUE, 2>>, <<TRUE, FALSE, 0>>, <<FALSE, FALSE, 0>>}

VARIABLES
    ctx,        \* struct transport_context: which pointers are non-null, arg_len
    fr,         \* the frame of nos_call_application and its callees: where it is,
                \* its locals, the caller's *reply_len, and the history of the call
    dev,        \* the device: its status word, reply length, reply crc
    calls,      \* calls made so far
    dg,         \* one nos_device_read / nos_device_write in progress
    up,         \* the updater: where main is, its options, its locals and history
    cl          \* libnos: the global dev of LinuxCitadelClient.cpp, the instances
                \* of LinuxCitadelClient, and one call of StatusCodeString

vars == <<ctx, fr, dev, calls, dg, up, cl>>

(***************************************************************************)
(* The frame.  Fields h_* are history: they record the bus operations the  *)
(* call has issued and are never read by the program.                      *)
(***************************************************************************)
\* no go write has been issued
NoInfo == [sent |-> FALSE, command |-> CommandWord(0, FALSE, FALSE, FALSE, FALSE, 0),
           version |-> 0, reply_len_hint |-> 0, crc |-> <<>>]

NoStatus == [version |-> 0, status |-> APP_STATUS_IDLE, reply_len |-> 0, reply_crc |-> 0]

FreshFrame(cap) ==
    [ pc         |-> "idle",
      res        |-> 0,
      reply_len  |-> cap,        \* *ctx.reply_len
      retries    |-> 0,          \* nos_call_application: retries
      gs_retries |-> 0,          \* get_status: retries
      status     |-> NoStatus,   \* nos_call_application: status
      arg_len    |-> 0,          \* send_command: arg_len (uint16_t)
      send_more  |-> FALSE,      \* send_command: command has CMD_MORE_TO_COME
      rr_retries |-> 0,          \* receive_reply: retries
      recv_more  |-> FALSE,      \* receive_reply: command has CMD_MORE_TO_COME
      left       |-> 0,          \* receive_reply: left (uint16_t)
      got        |-> 0,          \* receive_reply: got (uint16_t)
      crc        |-> 0,          \* receive_reply: crc (uint16_t)
      h_cap      |-> cap,        \* *reply_len on entry
      h_stale    |-> FALSE,      \* the call before this one returned after a final
                                 \* clear-status write that failed, and this call
                                 \* has issued no go write
      h_touched  |-> FALSE,      \* a bus operation was issued in this call
      h_last     |-> "none",     \* the last bus operation issued
      h_last_ok  |-> FALSE,      \* whether it succeeded
      h_attempts |-> 0,          \* make_ready entered
      h_go       |-> 0,          \* go writes issued
      h_sreads   |-> 0,          \* status reads issued by the latest get_status
      h_crcbad   |-> 0,          \* of them, V1 records whose crc mismatched
      h_legacy   |-> FALSE,      \* the last bus operation read a record without magic
      h_gsret    |-> GET_STATUS_CONTINUE,  \* what the latest get_status returned
      h_writes   |-> <<>>,       \* data writes issued by the current send_command
      h_rreads   |-> 0,          \* reply reads issued in this call
      h_passes   |-> 0,          \* passes begun by receive_reply
      h_reads    |-> <<>>,       \* reply reads of the latest pass that returned 0
      h_mismatch |-> 0,          \* of them, passes read to the end whose crc differs
                                 \* from status.reply_crc
      h_info     |-> NoInfo ]    \* the latest go write: its command word and its
                                 \* payload, struct transport_command_info

\* one bus operation of kind k was issued; ok: it returned 0.  The history
\* of get_status is kept until the next bus operation.
BusOp(f, k, ok) ==
    [f EXCEPT !.h_touched = TRUE, !.h_last = k, !.h_last_ok = ok,
              !.h_stale = IF k = "go" THEN FALSE ELSE @,
              !.h_sreads = IF k = "status" THEN @ ELSE 0,
              !.h_crcbad = IF k = "status" THEN @ ELSE 0,
              !.h_legacy = FALSE,
              !.h_gsret = GET_STATUS_CONTINUE]

\* the locals of get_status, send_command and receive_reply go out of scope
\* when these return
NoLocals(f) ==
    [f EXCEPT !.gs_retries = 0, !.arg_len = 0, !.send_more = FALSE,
              !.rr_retries = 0, !.recv_more = FALSE, !.left = 0, !.got = 0, !.crc = 0]

\* nos_call_application returns r
Return(f, r) == [NoLocals(f) EXCEPT !.pc = "returned", !.res = r]

(***************************************************************************)
(* get_status.  rec is the record the status read put in the union, r the  *)
(* result of nos_device_read, n the value of retries after the decrement   *)
(* of `while (retries--)`, out the caller's struct before the call.        *)
(* The result is the return value and the caller's struct afterwards;      *)
(* GET_STATUS_CONTINUE says that the loop reads again.                     *)
(***************************************************************************)
\* get_status with `while (retries-- >= 0)`: one round too many
get_status_extra_round(rec, r, n, out) ==
    IF r # 0 THEN [ret |-> GET_STATUS_ERROR_IO, out |-> out]
    ELSE IF rec.magic # TRANSPORT_STATUS_MAGIC
    THEN [ret |-> GET_STATUS_OK,
          out |-> [out EXCEPT !.version = TRANSPORT_LEGACY,
                              !.status = rec.status,
                              !.reply_len = rec.reply_len]]
    ELSE IF rec.crc # crc16_status(rec)
    THEN IF n + 1 # 0 THEN [ret |-> GET_STATUS_CONTINUE, out |-> out]
         ELSE [ret |-> GET_STATUS_ERROR_PROTOCOL, out |-> out]
    ELSE IF rec.version # TRANSPORT_V1
    THEN [ret |-> GET_STATUS_ERROR_PROTOCOL, out |-> out]
    ELSE [ret |-> GET_STATUS_OK,
          out |-> [version |-> rec.version, status |-> rec.status,
                   reply_len |-> rec.reply_len, reply_crc |-> rec.reply_crc]]

get_status(rec, r, n, out) ==
    IF r # 0 THEN [ret |-> GET_STATUS_ERROR_IO, out |-> out]
    ELSE IF rec.magic # TRANSPORT_STATUS_MAGIC
    THEN [ret |-> GET_STATUS_OK,
          out |-> [out EXCEPT !.version = TRANSPORT_LEGACY,
                              !.status = rec.status,
                              !.reply_len = rec.reply_len]]
    ELSE IF rec.crc # crc16_status(rec)
    THEN IF n # 0 THEN [ret |-> GET_STATUS_CONTINUE, out |-> out]
         ELSE [ret |-> GET_STATUS_ERROR_PROTOCOL, out |-> out]
    ELSE IF rec.version # TRANSPORT_V1
    THEN [ret |-> GET_STATUS_ERROR_PROTOCOL, out |-> out]
    ELSE [ret |-> GET_STATUS_OK,
          out |-> [version |-> rec.version, status |-> rec.status,
                   reply_len |-> rec.reply_len, reply_crc |-> rec.reply_crc]]

\* a caller enters get_status; `where` is the caller's position
EnterGetStatus(f, where) ==
    [f EXCEPT !.pc = where, !.gs_retries = CRC_RETRY_COUNT,
              !.h_sreads = 0, !.h_crcbad = 0, !.h_legacy = FALSE, !.h_gsret = GET_STATUS_CONTINUE]

\* get_status returns ret: its local goes out of scope
LeaveGetStatus(f, ret) == [f EXCEPT !.gs_retries = 0, !.h_gsret = ret]

\* one status read of get_status was issued: the loop counter and the history
StatusReadIssued(f, rec, r) ==
    [BusOp(f, "status", r = 0) EXCEPT
        !.gs_retries = @ - 1,
        !.h_sreads = @ + 1,
        !.h_legacy = (r = 0 /\ rec.magic # TRANSPORT_STATUS_MAGIC),
        !.h_crcbad = IF r = 0 /\ rec.magic = TRANSPORT_STATUS_MAGIC
                         /\ rec.crc # crc16_status(rec)
                     THEN @ + 1 ELSE @]

(***************************************************************************)
(* receive_reply.                                                          *)
(***************************************************************************)
RECURSIVE ReplyPass(_)

\* line 346 without the MIN against the caller's capacity
ReplyLeft_uncapped(f) == f.status.reply_len % U16

\* line 346: the bytes to read in one pass
ReplyLeft(f) == MIN(f.reply_len, f.status.reply_len) % U16

\* lines 367-378 with `retries-- >= 0`: one pass too many
ReplyPassEnd_extra_pass(f) ==
    LET g == [f EXCEPT !.reply_len = f.got]
    IN  IF g.status.version = TRANSPORT_LEGACY THEN [NoLocals(g) EXCEPT !.pc = "final_clear"]
        ELSE IF g.crc = g.status.reply_crc THEN [NoLocals(g) EXCEPT !.pc = "final_clear"]
        ELSE IF g.rr_retries + 1 # 0 THEN ReplyPass(g)
        ELSE Return(g, APP_ERROR_IO)

\* lines 367-378 without the legacy test of line 371
ReplyPassEnd_no_legacy(f) ==
    LET g == [f EXCEPT !.reply_len = f.got]
    IN  IF g.crc = g.status.reply_crc THEN [NoLocals(g) EXCEPT !.pc = "final_clear"]
        ELSE IF g.rr_retries # 0 THEN ReplyPass(g)
        ELSE Return(g, APP_ERROR_IO)

\* lines 367-378: a pass has read everything (left = 0)
ReplyPassEnd(f) ==
    LET g == [f EXCEPT !.reply_len = f.got]
    IN  IF g.status.version = TRANSPORT_LEGACY THEN [NoLocals(g) EXCEPT !.pc = "final_clear"]
        ELSE IF g.crc = g.status.reply_crc THEN [NoLocals(g) EXCEPT !.pc = "final_clear"]
        ELSE IF g.rr_retries # 0 THEN ReplyPass(g)
        ELSE Return(g, APP_ERROR_IO)

\* lines 341-349: `while (retries--)` was entered, the locals of a pass are set
ReplyPass(f) ==
    LET g == [f EXCEPT !.pc = "reply",
                       !.rr_retries = @ - 1,
                       !.recv_more = FALSE,
                       !.left = ReplyLeft(f),
                       !.got = 0,
                       !.crc = 0,
                       !.h_passes = @ + 1,
                       !.h_reads = <<>>]
    IN  IF g.left # 0 THEN g ELSE ReplyPassEnd(g)

receive_reply(f) ==
    ReplyPass([f EXCEPT !.rr_retries = CRC_RETRY_COUNT, !.h_passes = 0, !.h_mismatch = 0])

\* lines 350-366 with the crc of each datagram begun from 0
receive_reply_read_crc_per_chunk(f, r, d) ==
    LET gimme == MIN(f.left, MAX_DEVICE_TRANSFER)
        g == [BusOp(f, "reply", r = 0) EXCEPT !.h_rreads = @ + 1]
    IN  IF r # 0 THEN Return(g, APP_ERROR_IO)
        ELSE LET h == [g EXCEPT !.recv_more = TRUE,
                                !.crc = crc16_update(d, gimme, 0),
                                !.left = (g.left - gimme) % U16,
                                !.got = (g.got + gimme) % U16,
                                !.h_reads = Append(@, [more |-> f.recv_more, len |-> gimme,
                                                       d |-> d])]
             IN  IF h.left # 0 THEN h
                 ELSE ReplyPassEnd([h EXCEPT !.h_mismatch =
                                       IF h.crc # h.status.reply_crc THEN @ + 1 ELSE @])

\* lines 350-366: one reply read, of data d, with result r
receive_reply_read(f, r, d) ==
    LET gimme == MIN(f.left, MAX_DEVICE_TRANSFER)
        g == [BusOp(f, "reply", r = 0) EXCEPT !.h_rreads = @ + 1]
    IN  IF r # 0 THEN Return(g, APP_ERROR_IO)
        ELSE LET h == [g EXCEPT !.recv_more = TRUE,
                                !.h_reads = Append(@, [more |-> f.recv_more, len |-> gimme,
                                                       d |-> d]),
                                !.crc = crc16_update(d, gimme, g.crc),
                                !.left = (g.left - gimme) % U16,
                                !.got = (g.got + gimme) % U16]
             IN  IF h.left # 0 THEN h
                 ELSE ReplyPassEnd([h EXCEPT !.h_mismatch =
                                       IF h.crc # h.status.reply_crc THEN @ + 1 ELSE @])

(***************************************************************************)
(* nos_call_application, lines 428-434: the reply is read only if the app  *)
(* produced data and the caller wants it.                                  *)
(***************************************************************************)
WantsReply(c, f) ==
    c.reply /\ c.reply_len /\ f.reply_len # 0 /\ f.status.reply_len # 0

AfterPoll(c, f) ==
    IF WantsReply(c, f) THEN receive_reply(f)
    ELSE [f EXCEPT !.reply_len = 0, !.pc = "final_clear"]

\* line 413: make_ready is entered
EnterMakeReady(f) ==
    EnterGetStatus([f EXCEPT !.h_attempts = @ + 1], "mr_inspect")

\* lines 421-426 with `while (retries--)`: a fourth attempt
poll_until_done_post_decrement(c, f, g) ==
    IF g.ret # GET_STATUS_OK THEN Return(f, APP_ERROR_IO)
    ELSE LET h == [f EXCEPT !.status = g.out]
         IN  IF ~HasDone(h.status.status) THEN EnterGetStatus(h, "poll")
             ELSE LET res == APP_STATUS_CODE(h.status.status)
                      k == [h EXCEPT !.res = res]
                  IN  IF res = APP_SUCCESS THEN AfterPoll(c, k)
                      ELSE IF res # APP_ERROR_CHECKSUM THEN Return(k, res)
                      ELSE IF k.retries # 0
                      THEN EnterMakeReady([k EXCEPT !.retries = @ - 1])
                      ELSE Return([k EXCEPT !.retries = @ - 1], APP_ERROR_IO)

\* lines 421-427 without the test of line 427: the code polled at the last
\* attempt is what the call returns
poll_until_done_returns_polled(c, f, g) ==
    IF g.ret # GET_STATUS_OK THEN Return(f, APP_ERROR_IO)
    ELSE LET h == [f EXCEPT !.status = g.out]
         IN  IF ~HasDone(h.status.status) THEN EnterGetStatus(h, "poll")
             ELSE LET res == APP_STATUS_CODE(h.status.status)
                      k == [h EXCEPT !.res = res]
                  IN  IF res = APP_SUCCESS THEN AfterPoll(c, k)
                      ELSE IF res # APP_ERROR_CHECKSUM THEN Return(k, res)
                      ELSE IF k.retries - 1 # 0
                      THEN EnterMakeReady([k EXCEPT !.retries = @ - 1])
                      ELSE Return([k EXCEPT !.retries = @ - 1], res)

\* lines 421-426 returning APP_ERROR_IO for every failure of the application
poll_until_done_masks_code(c, f, g) ==
    IF g.ret # GET_STATUS_OK THEN Return(f, APP_ERROR_IO)
    ELSE LET h == [f EXCEPT !.status = g.out]
         IN  IF ~HasDone(h.status.status) THEN EnterGetStatus(h, "poll")
             ELSE LET res == APP_STATUS_CODE(h.status.status)
                      k == [h EXCEPT !.res = res]
                  IN  IF res = APP_SUCCESS THEN AfterPoll(c, k)
                      ELSE IF res # APP_ERROR_CHECKSUM THEN Return(k, APP_ERROR_IO)
                      ELSE IF k.retries - 1 # 0
                      THEN EnterMakeReady([k EXCEPT !.retries = @ - 1])
                      ELSE Return([k EXCEPT !.retries = @ - 1], APP_ERROR_IO)

(***************************************************************************)
(* nos_call_application, lines 421-426, and poll_until_done: get_status    *)
(* returned g in the poll loop.                                            *)
(***************************************************************************)
poll_until_done(c, f, g) ==
    IF g.ret # GET_STATUS_OK THEN Return(f, APP_ERROR_IO)
    ELSE LET h == [f EXCEPT !.status = g.out]
         IN  IF ~HasDone(h.status.status) THEN EnterGetStatus(h, "poll")
             ELSE LET res == APP_STATUS_CODE(h.status.status)
                      k == [h EXCEPT !.res = res]
                  IN  IF res = APP_SUCCESS THEN AfterPoll(c, k)
                      ELSE IF res # APP_ERROR_CHECKSUM THEN Return(k, res)
                      ELSE IF k.retries - 1 # 0
                      THEN EnterMakeReady([k EXCEPT !.retries = @ - 1])
                      ELSE Return([k EXCEPT !.retries = @ - 1], APP_ERROR_IO)

(***************************************************************************)
(* send_command.                                                           *)
(***************************************************************************)
\* lines 252-256
send_command(c, f) ==
    [f EXCEPT !.pc = "send_data", !.arg_len = c.arg_len % U16,
              !.send_more = FALSE, !.h_writes = <<>>]

\* lines 258-279 going on after a data write that failed
send_command_data_ignores_failure(f, r) ==
    LET ulen == MIN(f.arg_len, MAX_DEVICE_TRANSFER)
        g == [BusOp(f, "data", r = 0) EXCEPT
                 !.h_writes = Append(@, [more |-> f.send_more, param |-> ulen, len |-> ulen])]
        h == [g EXCEPT !.send_more = TRUE, !.arg_len = (@ - ulen) % U16]
    IN  IF h.arg_len # 0 THEN h ELSE [h EXCEPT !.pc = "send_go"]

\* lines 258-279: one data write, with result r
send_command_data(f, r) ==
    LET ulen == MIN(f.arg_len, MAX_DEVICE_TRANSFER)
        g == [BusOp(f, "data", r = 0) EXCEPT
                 !.h_writes = Append(@, [more |-> f.send_more, param |-> ulen, len |-> ulen])]
    IN  IF r # 0 THEN Return(g, APP_ERROR_IO)
        ELSE LET h == [g EXCEPT !.send_more = TRUE, !.arg_len = (@ - ulen) % U16]
             IN  IF h.arg_len # 0 THEN h ELSE [h EXCEPT !.pc = "send_go"]

\* lines 292-302: the command_info of the go write
command_info(c, f, command) ==
    LET hint == f.reply_len % U16
        arg_len == c.arg_len % U16
    IN  [sent |-> TRUE, command |-> command, version |-> TRANSPORT_V1,
         reply_len_hint |-> hint,
         crc |-> crc16_request(arg_len, c.arg_len, hint, command)]

\* lines 281-312 and 421: the go write, with result r
send_command_go(c, f, r) ==
    LET command == GoCommand(c)
        g == [BusOp(f, "go", r = 0) EXCEPT !.h_go = @ + 1,
                                           !.h_info = command_info(c, f, command)]
    IN  IF r # 0 THEN Return(g, APP_ERROR_IO)
        ELSE EnterGetStatus(NoLocals(g), "poll")

(***************************************************************************)
(* make_ready: get_status returned g at line 209 / at line 233.            *)
(***************************************************************************)
\* lines 211-223 clearing the status after an I/O failure as well
make_ready_inspect_clear_always(c, f, g) ==
    IF g.ret = GET_STATUS_OK
    THEN IF g.out.status = APP_STATUS_IDLE THEN send_command(c, f)
         ELSE [f EXCEPT !.pc = "mr_clear"]
    ELSE [f EXCEPT !.pc = "mr_clear"]

\* lines 211-223 returning APP_ERROR_IO for a protocol error as well
make_ready_inspect_protocol_fatal(c, f, g) ==
    IF g.ret = GET_STATUS_OK
    THEN IF g.out.status = APP_STATUS_IDLE THEN send_command(c, f)
         ELSE [f EXCEPT !.pc = "mr_clear"]
    ELSE Return(f, APP_ERROR_IO)

make_ready_inspect(c, f, g) ==
    IF g.ret = GET_STATUS_OK
    THEN IF g.out.status = APP_STATUS_IDLE THEN send_command(c, f)
         ELSE [f EXCEPT !.pc = "mr_clear"]
    ELSE IF g.ret # GET_STATUS_ERROR_PROTOCOL THEN Return(f, APP_ERROR_IO)
    ELSE [f EXCEPT !.pc = "mr_clear"]

\* lines 227-230: the clear-status write, with result r
make_ready_clear(f, r) ==
    LET g == BusOp(f, "clear", r = 0)
    IN  IF r # 0 THEN Return(g, APP_ERROR_IO)
        ELSE EnterGetStatus(g, "mr_recheck")

\* lines 233-243 clearing the status again until the device is idle
make_ready_recheck_until_idle(c, f, g) ==
    IF g.ret # GET_STATUS_OK THEN Return(f, APP_ERROR_IO)
    ELSE IF g.out.status # APP_STATUS_IDLE THEN [f EXCEPT !.pc = "mr_clear"]
    ELSE send_command(c, f)

\* lines 233-243: get_status returned g at line 233
make_ready_recheck(c, f, g) ==
    IF g.ret # GET_STATUS_OK THEN Return(f, APP_ERROR_IO)
    ELSE IF g.out.status # APP_STATUS_IDLE THEN Return(f, APP_ERROR_IO)
    ELSE send_command(c, f)

(***************************************************************************)
(* nos_call_application.                                                   *)
(***************************************************************************)
\* lines 400-402 without the test of the reply buffer
InvalidArgs_no_reply_test(c, cap) ==
    \/ (c.arg_len # 0 /\ ~c.args)
    \/ ~c.reply_len

\* lines 400-402; cap is *reply_len, read only when the pointer is not null
InvalidArgs(c, cap) ==
    \/ (c.arg_len # 0 /\ ~c.args)
    \/ ~c.reply_len
    \/ (cap # 0 /\ ~c.reply)

\* lines 389-413
nos_call_application(c, cap) ==
    IF InvalidArgs(c, cap) THEN Return(FreshFrame(cap), APP_ERROR_IO)
    ELSE EnterMakeReady([FreshFrame(cap) EXCEPT !.retries = CRC_RETRY_COUNT])

\* lines 436-442 without the clear-status write
final_clear_skipped(f, r) ==
    Return(f, APP_STATUS_CODE(f.status.status))

\* lines 436-442 with a failure of clear_status returned to the caller
final_clear_fatal(f, r) ==
    Return(BusOp(f, "clear", r = 0),
           IF r # 0 THEN APP_ERROR_IO ELSE APP_STATUS_CODE(f.status.status))

\* lines 436-442: the final clear-status write, with result r (ignored)
final_clear(f, r) ==
    Return(BusOp(f, "clear", r = 0), APP_STATUS_CODE(f.status.status))

(***************************************************************************)
(* The device.  It answers a status read with a V1 record (magic, version, *)
(* crc) or a legacy record (no magic); the crc of a V1 record may arrive   *)
(* damaged and its version may be one the host does not know.              *)
(***************************************************************************)
DevStatusRecords(d) ==
    LET Rec(m, v) == [magic |-> m, version |-> v, crc |-> 0, status |-> d.status,
                      reply_len |-> d.reply_len, reply_crc |-> d.reply_crc]
        WithCrc(x, bad) == [x EXCEPT !.crc = (crc16_status(x) + (IF bad THEN 1 ELSE 0)) % U16]
    IN  {WithCrc(Rec(TRANSPORT_STATUS_MAGIC, v), bad) : v \in {TRANSPORT_V1, 2}, bad \in BOOLEAN}
        \cup {Rec("none", 0)}

\* the outcomes of one status read: the result of nos_device_read and, when
\* it is 0, the record read
StatusReads(d) ==
    {<<r, [magic |-> "none"]>> : r \in DevReturns \ {0}}
    \cup {<<0, rec>> : rec \in DevStatusRecords(d)}

\* the device receives a clear-status write
DeviceClear(d) ==
    IF d.obeys THEN [d EXCEPT !.status = APP_STATUS_IDLE, !.reply_len = 0, !.reply_crc = 0]
    ELSE d

\* the device receives the go write
DeviceGo(d) == [d EXCEPT !.status = DEV_WORKING]

\* the crc of the first len bytes of a reply, undamaged
IntactCrc(len) == IF len = 0 THEN 0 ELSE crc16_update(0, len, 0)

\* the reply crc a device may put in its status for a reply of rl bytes
ReplyCrcs(rl) == {IntactCrc(rl)} \cup {IntactCrc(MIN(c, rl)) : c \in Caps \ {0}}

DevInit ==
    {[status |-> s, reply_len |-> 0, reply_crc |-> 0, obeys |-> o] :
        s \in {APP_STATUS_IDLE, DEV_WORKING, DoneWith(APP_SUCCESS)},
        o \in BOOLEAN}

(***************************************************************************)
(* The retrying datagram layer, nos_device_read and nos_device_write.      *)
(***************************************************************************)
DriverResults == {0, -EAGAIN, -EIO}

DgIdle == [pc |-> "idle", op |-> "none", retries |-> 0, sleeps |-> 0, ret |-> 0,
           h_errs |-> <<>>]

\* lines 84 / 110
nos_device_enter(op) == [DgIdle EXCEPT !.pc = "loop", !.op = op, !.retries = RETRY_COUNT]

\* lines 85-102 / 111-128 with `while (--retries)`: one round too few
nos_device_round_pre_decrement(d, err) ==
    LET n == d.retries - 1
        e == [d EXCEPT !.retries = n, !.h_errs = Append(@, err)]
    IN  IF err = -EAGAIN
        THEN LET s == [e EXCEPT !.sleeps = @ + 1]
             IN  IF n - 1 # 0 THEN s ELSE [s EXCEPT !.pc = "done", !.ret = ETIMEDOUT]
        ELSE [e EXCEPT !.pc = "done", !.ret = -err]

\* lines 85-102 / 111-128: one round of the loop; err is the driver's result
nos_device_round(d, err) ==
    LET n == d.retries - 1
        e == [d EXCEPT !.retries = n, !.h_errs = Append(@, err)]
    IN  IF err = -EAGAIN
        THEN LET s == [e EXCEPT !.sleeps = @ + 1]
             IN  IF n # 0 THEN s ELSE [s EXCEPT !.pc = "done", !.ret = ETIMEDOUT]
        ELSE [e EXCEPT !.pc = "done", !.ret = -err]

(***************************************************************************)
(* The updater (citadel/updater/updater.cpp).  One action is one app.Call  *)
(* together with all the local computation up to the next app.Call or to   *)
(* the return of main; the result of app.Call is an input.  Fields h_* are *)
(* history.                                                                *)
(***************************************************************************)
\* config_chip.h: the flash layout of Citadel
CHIP_FLASH_BANK_SIZE == 2048
CHIP_RO_A_MEM_OFF == 0
CHIP_RW_A_MEM_OFF == 16384
CHIP_RO_B_MEM_OFF == 262144
CHIP_RW_B_MEM_OFF == 278528

\* app_nugget.h
NUGGET_ERROR_LOCKED == APP_SPECIFIC_ERROR
NUGGET_ERROR_RETRY == APP_SPECIFIC_ERROR + 1
NUGGET_PARAM_REBOOT == 2
NUGGET_PARAM_CHANGE_UPDATE_PASSWORD == 3
NUGGET_PARAM_ENABLE_UPDATE == 4
NUGGET_PARAM_NUKE_FROM_ORBIT == 5

\* what app.Call returns for a flash block, and for the other functions
BlockResults == {APP_SUCCESS, APP_ERROR_IO, NUGGET_ERROR_LOCKED, NUGGET_ERROR_RETRY}
CallResults == {APP_SUCCESS, APP_ERROR_IO}
\* what an uninitialised uint32_t may hold
Indeterminate == {APP_SUCCESS, NUGGET_ERROR_RETRY, 57005}

\* the image_size of the four signed headers of an image file
Images ==
    { [rw_A |-> 2049, rw_B |-> 2048, ro_A |-> 2048, ro_B |-> 2049],
      [rw_A |-> 0,    rw_B |-> 2048, ro_A |-> 2048, ro_B |-> 0],
      [rw_A |-> 2048, rw_B |-> 0,    ro_A |-> 0,    ro_B |-> 0] }
\* std::vector<uint8_t> image, empty
NoImage == [rw_A |-> 0, rw_B |-> 0, ro_A |-> 0, ro_B |-> 0]

\* ((struct SignedHeader *)(image.data() + offset))->image_size
image_size(image, offset) ==
    CASE offset = CHIP_RW_A_MEM_OFF -> image.rw_A
      [] offset = CHIP_RW_B_MEM_OFF -> image.rw_B
      [] offset = CHIP_RO_A_MEM_OFF -> image.ro_A
      [] OTHER -> image.ro_B

\* the command line: the action options given, the argument of --erase,
\* whether an option is unrecognised or lacks its argument, whether --help is
\* given (before or after all the other options), the positional arguments,
\* which of them is the empty string, and whether the image file can be read
OptionNames == {"version", "ro", "rw", "reboot", "enable_ro", "enable_rw", "change_pw"}
EraseArgs == {"none", "0", "7", "x"}
Positional == <<"arg1", "arg2", "arg3">>
CmdLines ==
    [flags : SUBSET OptionNames, erase : EraseArgs, unknown : BOOLEAN,
     help : {"no", "first", "last"}, npos : 0..Len(Positional),
     empty : 0..Len(Positional), image_ok : BOOLEAN, image : Images]

\* argv[optind] for the i-th positional argument
argv(cmd, i) == IF i = cmd.empty THEN "" ELSE Positional[i]

\* struct options_s
NoOptions ==
    [version |-> FALSE, ro |-> FALSE, rw |-> FALSE, reboot |-> FALSE, enable_ro |-> FALSE,
     enable_rw |-> FALSE, change_pw |-> FALSE, erase_code |-> 0]

\* struct nugget_app_flash_block, and the bytes of the image a payload holds
NoBlock == [block_digest |-> <<>>, offset |-> 0, payload |-> [from |-> 0, len |-> 0]]

UpStart ==
    [ pc         |-> "main",
      options    |-> NoOptions,
      optind     |-> 1,            \* the next positional argument
      passwd     |-> "null",       \* main: passwd
      old_passwd |-> "null",       \* main: old_passwd
      image      |-> NoImage,      \* main: image
      errorcnt   |-> 0,
      ret        |-> -1,           \* what execute_commands returned
      exit       |-> -1,           \* what main returned
      step       |-> 0,            \* execute_commands: the action in progress
      offset_A   |-> 0,            \* do_update: offset_A
      offset_B   |-> 0,            \* do_update: offset_B
      in_B       |-> FALSE,        \* do_update: the second try_update is running
      offset     |-> 0,            \* try_update: offset
      stop       |-> 0,            \* try_update: stop
      retries    |-> 0,            \* try_update: retries
      rv         |-> 0,            \* try_update: rv
      rv_set     |-> FALSE,        \* try_update: rv has been assigned
      data       |-> NoBlock,      \* try_update: data
      h_actions  |-> <<>>,         \* the actions execute_commands has begun
      h_rvs      |-> <<>>,         \* what the actions that have ended returned
      h_executed |-> FALSE,        \* execute_commands was called
      h_is_open  |-> FALSE,        \* what client->IsOpen() said
      h_params   |-> {},           \* the functions app.Call was called with
      h_last     |-> NoBlock,      \* the latest flash block sent
      h_tries    |-> 0,            \* calls made for the block in data
      h_from     |-> 0,            \* try_update: offset on entry
      h_size     |-> 0,            \* try_update: imagesize
      h_blocks   |-> 0,            \* blocks sent by the try_update in progress
      h_retried  |-> 0,            \* NUGGET_ERROR_RETRY results it has seen
      h_stub     |-> FALSE,        \* do_update is running and each flash block call
                                   \* of it was answered NUGGET_ERROR_LOCKED in slot
                                   \* A and APP_SUCCESS in slot B
      h_slots    |-> <<>>,         \* the try_update calls that have returned
      h_updates  |-> <<>>,         \* what the do_update calls returned
      h_parse    |-> [errors |-> FALSE, got_action |-> FALSE],
                                   \* the getopt loop: whether it reported an error,
                                   \* and got_action
      h_main     |-> <<>>,         \* the arguments main took: what for, and which
      h_sent     |-> <<>> ]        \* the password records sent, with their function

\* lines 142-153: Error
Error(u) == [u EXCEPT !.errorcnt = @ + 1]

\* lines 156-189: is_app_success
is_app_success(u, retval) ==
    IF retval = APP_SUCCESS THEN u ELSE [u EXCEPT !.errorcnt = @ + 1]

\* lines 618-619: out: return !!errorcnt
main_return(u) == [u EXCEPT !.pc = "exit", !.exit = IF u.errorcnt # 0 THEN 1 ELSE 0]

\* execute_commands returns r and main, line 615, drops it
execute_commands_return(u, r) == main_return([u EXCEPT !.ret = r])

(***************************************************************************)
(* compute_digest and compute_fb_digest.  A digest is kept as the bytes it *)
(* was computed over: two digests are equal exactly when they cover the    *)
(* same bytes.  A struct is the sequence of its fields.                    *)
(***************************************************************************)
compute_digest(bytes) == <<"sha1[0..4)", bytes>>

\* the fields of struct nugget_app_flash_block, in order
flash_block_fields == <<"block_digest", "offset", "payload">>

offsetof(field) == CHOOSE i \in 1..Len(flash_block_fields) : flash_block_fields[i] = field

FieldValue(blk, i) ==
    CASE flash_block_fields[i] = "block_digest" -> <<"block_digest", blk.block_digest>>
      [] flash_block_fields[i] = "offset" -> <<"offset", blk.offset>>
      [] OTHER -> <<"payload", blk.payload>>

\* compute_fb_digest hashing the payload only
compute_fb_digest_payload_only(blk) ==
    compute_digest([i \in 1..(Len(flash_block_fields) - offsetof("payload") + 1) |->
                       FieldValue(blk, i + offsetof("payload") - 1)])

\* lines 247-255: the hash runs from the field offset to the end of the struct
compute_fb_digest(blk) ==
    compute_digest([i \in 1..(Len(flash_block_fields) - offsetof("offset") + 1) |->
                       FieldValue(blk, i + offsetof("offset") - 1)])

\* lines 268-274: the block for the bank at offset
flash_block(offset) ==
    LET fb == [NoBlock EXCEPT !.offset = offset,
                              !.payload = [from |-> offset, len |-> CHIP_FLASH_BANK_SIZE]]
    IN  [fb EXCEPT !.block_digest = compute_fb_digest(fb)]

(***************************************************************************)
(* execute_commands, do_update and try_update.                             *)
(***************************************************************************)
Actions == <<"version", "rw", "ro", "change_pw", "enable", "reboot">>

Requested(o, a) ==
    CASE a = "version" -> o.version
      [] a = "rw" -> o.rw
      [] a = "ro" -> o.ro
      [] a = "change_pw" -> o.change_pw
      [] a = "enable" -> (o.enable_ro \/ o.enable_rw)
      [] OTHER -> o.reboot

RECURSIVE execute_commands_from(_, _)
RECURSIVE try_update_loop(_)

\* the locals of try_update and do_update go out of scope
NoUpdateLocals(u) ==
    [u EXCEPT !.offset_A = 0, !.offset_B = 0, !.in_B = FALSE, !.offset = 0, !.stop = 0,
              !.retries = 0, !.rv = 0, !.rv_set = FALSE, !.data = NoBlock,
              !.h_tries = 0, !.h_from = 0, !.h_size = 0, !.h_blocks = 0,
              !.h_retried = 0, !.h_stub = FALSE]

\* the try_update in progress returns rv: its entry in the history
SlotEntry(u, rv) ==
    [step |-> u.step, offset |-> u.h_from, size |-> u.h_size, blocks |-> u.h_blocks,
     rv |-> rv]

\* lines 447-475 going on to the next action whatever the action returned
execute_commands_after_no_bail(u, rv) ==
    execute_commands_from([u EXCEPT !.h_rvs = Append(@, rv)], u.step + 1)

\* lines 447-475: the action of step k returned rv
execute_commands_after(u, rv) ==
    LET v == [u EXCEPT !.h_rvs = Append(@, rv)]
    IN  IF rv # APP_SUCCESS THEN execute_commands_return(v, v.step + 1)
        ELSE execute_commands_from(v, v.step + 1)

\* lines 260-264: try_update is entered
try_update(u, offset, imagesize) ==
    try_update_loop([u EXCEPT !.offset = offset, !.stop = offset + imagesize,
                              !.rv = 0, !.rv_set = FALSE, !.retries = 0, !.data = NoBlock,
                              !.h_tries = 0, !.h_from = offset, !.h_size = imagesize,
                              !.h_blocks = 0, !.h_retried = 0])

\* do_update with the size of slot A used for slot B as well
do_update_return_size_of_A(u, rv) ==
    LET v == [u EXCEPT !.h_slots = Append(@, SlotEntry(u, rv))]
    IN  IF ~v.in_B /\ rv # APP_SUCCESS
        THEN try_update([v EXCEPT !.in_B = TRUE], v.offset_B, image_size(v.image, v.offset_A))
        ELSE execute_commands_after(
                 [NoUpdateLocals(v) EXCEPT !.h_updates = Append(@, [step |-> v.step, rv |-> rv])],
                 rv)

\* lines 304-315: a try_update of do_update returned rv
do_update_return(u, rv) ==
    LET v == [u EXCEPT !.h_slots = Append(@, SlotEntry(u, rv))]
    IN  IF ~v.in_B /\ rv # APP_SUCCESS
        THEN try_update([v EXCEPT !.in_B = TRUE], v.offset_B, image_size(v.image, v.offset_B))
        ELSE execute_commands_after(
                 [NoUpdateLocals(v) EXCEPT !.h_updates = Append(@, [step |-> v.step, rv |-> rv])],
                 rv)

\* line 293: try_update returns rv
try_update_return(u, rv) == do_update_return(u, rv)

\* lines 266-277: the test of the loop and the block of the next bank; a loop
\* that ends before any call leaves rv unassigned
try_update_loop(u) ==
    IF u.offset < u.stop
    THEN [u EXCEPT !.pc = "flash_block", !.retries = 3, !.data = flash_block(u.offset),
                   !.h_tries = 0]
    ELSE IF u.rv_set THEN try_update_return(u, u.rv)
    ELSE [u EXCEPT !.pc = "no_block"]

\* lines 278-291 with `--retries`: three calls for a block
try_update_call_pre_decrement(u, rv) ==
    LET v == [u EXCEPT !.rv = rv, !.rv_set = TRUE, !.h_tries = @ + 1,
                       !.h_blocks = IF u.h_tries = 0 THEN @ + 1 ELSE @,
                       !.h_last = u.data,
                       !.h_retried = IF rv = NUGGET_ERROR_RETRY THEN @ + 1 ELSE @,
                       !.h_stub = @ /\ rv = (IF u.in_B THEN APP_SUCCESS
                                             ELSE NUGGET_ERROR_LOCKED),
                       !.h_params = @ \cup {NUGGET_PARAM_FLASH_BLOCK}]
    IN  IF rv = NUGGET_ERROR_RETRY /\ v.retries - 1 # 0 THEN [v EXCEPT !.retries = @ - 1]
        ELSE LET w == [v EXCEPT !.retries = IF rv = NUGGET_ERROR_RETRY THEN @ - 1 ELSE @]
             IN  IF rv # 0 THEN try_update_return(w, rv)
                 ELSE try_update_loop([w EXCEPT !.offset = @ + CHIP_FLASH_BANK_SIZE])

\* lines 278-291: app.Call(NUGGET_PARAM_FLASH_BLOCK, data) returned rv
try_update_call(u, rv) ==
    LET v == [u EXCEPT !.rv = rv, !.rv_set = TRUE, !.h_tries = @ + 1,
                       !.h_blocks = IF u.h_tries = 0 THEN @ + 1 ELSE @,
                       !.h_last = u.data,
                       !.h_retried = IF rv = NUGGET_ERROR_RETRY THEN @ + 1 ELSE @,
                       !.h_stub = @ /\ rv = (IF u.in_B THEN APP_SUCCESS
                                             ELSE NUGGET_ERROR_LOCKED),
                       !.h_params = @ \cup {NUGGET_PARAM_FLASH_BLOCK}]
    IN  IF rv = NUGGET_ERROR_RETRY /\ v.retries # 0 THEN [v EXCEPT !.retries = @ - 1]
        ELSE LET w == [v EXCEPT !.retries = IF rv = NUGGET_ERROR_RETRY THEN @ - 1 ELSE @]
             IN  IF rv # 0 THEN try_update_return(w, rv)
                 ELSE try_update_loop([w EXCEPT !.offset = @ + CHIP_FLASH_BANK_SIZE])

\* lines 296-304: do_update is entered
do_update(u, offset_A, offset_B) ==
    try_update([u EXCEPT !.offset_A = offset_A, !.offset_B = offset_B, !.in_B = FALSE,
                         !.h_stub = TRUE],
               offset_A, image_size(u.image, offset_A))

\* lines 447-477: the requested actions from the k-th on, in order
execute_commands_from(u, k) ==
    IF k > Len(Actions) THEN execute_commands_return(u, 0)
    ELSE IF ~Requested(u.options, Actions[k]) THEN execute_commands_from(u, k + 1)
    ELSE LET v == [u EXCEPT !.step = k, !.h_actions = Append(@, Actions[k])]
         IN  CASE Actions[k] = "rw" -> do_update(v, CHIP_RW_A_MEM_OFF, CHIP_RW_B_MEM_OFF)
               [] Actions[k] = "ro" -> do_update(v, CHIP_RO_A_MEM_OFF, CHIP_RO_B_MEM_OFF)
               [] OTHER -> [v EXCEPT !.pc = Actions[k]]

\* lines 432-445: is_open is what client->IsOpen() says after Open()
execute_commands(u, is_open) ==
    LET v == [u EXCEPT !.h_executed = TRUE, !.h_is_open = is_open]
    IN  IF ~is_open THEN execute_commands_return(Error(v), 1)
        ELSE IF v.options.erase_code # 0
        THEN [v EXCEPT !.pc = "erase", !.h_actions = Append(@, "erase")]
        ELSE execute_commands_from(v, 1)

\* do_version, do_change_pw, do_enable, do_reboot: app.Call(param) returned rv
do_call(u, param, rv) ==
    execute_commands_after([is_app_success(u, rv) EXCEPT !.h_params = @ \cup {param}], rv)

\* a password buffer: the bytes of text followed by 0xFF up to its size
PasswordBuffer(text) == [text |-> text, pad |-> "0xff"]

\* the four bytes memset left in a digest field
DigestFF == <<"memset", PasswordBuffer("")>>

\* struct nugget_app_password with the digest computed for every password
nugget_app_password_always_digest(pw) ==
    LET buf == PasswordBuffer(IF pw = "null" THEN "" ELSE pw)
    IN  [password |-> buf, digest |-> compute_digest(buf)]

\* lines 355-362, 364-370 and 387-394: struct nugget_app_password after the
\* memset and the copy of pw ("null": a null pointer)
nugget_app_password(pw) ==
    IF pw # "null" /\ pw # ""
    THEN [password |-> PasswordBuffer(pw), digest |-> compute_digest(PasswordBuffer(pw))]
    ELSE [password |-> PasswordBuffer(""), digest |-> DigestFF]

\* lines 347-378: do_change_pw; app.Call returned rv
do_change_pw(u, rv) ==
    [do_call(u, NUGGET_PARAM_CHANGE_UPDATE_PASSWORD, rv) EXCEPT
        !.h_sent = Append(@, [param |-> NUGGET_PARAM_CHANGE_UPDATE_PASSWORD,
                              passwords |-> <<nugget_app_password(u.old_passwd),
                                              nugget_app_password(u.passwd)>>])]

\* lines 380-404: do_enable; app.Call returned rv
do_enable(u, rv) ==
    [do_call(u, NUGGET_PARAM_ENABLE_UPDATE, rv) EXCEPT
        !.h_sent = Append(@, [param |-> NUGGET_PARAM_ENABLE_UPDATE,
                              passwords |-> <<nugget_app_password(u.passwd)>>])]

\* lines 406-417 and 444: do_erase; app.Call returned rv
do_erase(u, rv) ==
    LET v == [is_app_success(u, rv) EXCEPT !.h_params = @ \cup {NUGGET_PARAM_NUKE_FROM_ORBIT}]
    IN  execute_commands_return([v EXCEPT !.h_rvs = Append(@, rv)], rv)

(***************************************************************************)
(* main.                                                                   *)
(***************************************************************************)
\* lines 534-538: strtoul of the argument of --erase, and whether it is valid
erase_code(arg) == IF arg = "7" THEN 7 ELSE 0

erase_invalid(arg) == arg = "x"

\* lines 501-566: the options after the getopt loop
parse_options(cmd) ==
    [version |-> "version" \in cmd.flags, ro |-> "ro" \in cmd.flags, rw |-> "rw" \in cmd.flags,
     reboot |-> "reboot" \in cmd.flags, enable_ro |-> "enable_ro" \in cmd.flags,
     enable_rw |-> "enable_rw" \in cmd.flags, change_pw |-> "change_pw" \in cmd.flags,
     erase_code |-> erase_code(cmd.erase)]

got_action(cmd) == cmd.flags # {} \/ cmd.erase # "none"

\* lines 577-587
main_image(u, cmd) ==
    IF ~(u.options.ro \/ u.options.rw) THEN u
    ELSE IF u.optind <= cmd.npos /\ cmd.image_ok /\ argv(cmd, u.optind) # ""
    THEN [u EXCEPT !.image = cmd.image, !.h_main = Append(@, <<"image", u.optind>>)]
    ELSE main_return(Error(u))

\* lines 589-603
main_change_pw(u, cmd) ==
    IF u.pc = "exit" \/ ~u.options.change_pw THEN u
    ELSE IF u.optind <= cmd.npos
    THEN LET v == [u EXCEPT !.passwd = argv(cmd, u.optind), !.optind = @ + 1]
         IN  IF v.optind <= cmd.npos
             THEN [v EXCEPT !.old_passwd = v.passwd, !.passwd = argv(cmd, v.optind),
                            !.optind = @ + 1,
                            !.h_main = @ \o <<<<"old_passwd", u.optind>>,
                                              <<"passwd", v.optind>>>>]
             ELSE [v EXCEPT !.h_main = Append(@, <<"passwd", u.optind>>)]
    ELSE main_return(Error(u))

\* lines 605-612
main_enable(u, cmd) ==
    IF u.pc = "exit" \/ ~(u.options.enable_ro \/ u.options.enable_rw) \/ u.passwd # "null"
    THEN u
    ELSE IF u.optind <= cmd.npos
    THEN [u EXCEPT !.passwd = argv(cmd, u.optind), !.optind = @ + 1,
                   !.h_main = Append(@, <<"passwd", u.optind>>)]
    ELSE main_return(Error(u))

\* lines 482-620
main(cmd, is_open) ==
    LET errs == (IF cmd.unknown THEN 1 ELSE 0) + (IF erase_invalid(cmd.erase) THEN 1 ELSE 0)
        u == [UpStart EXCEPT !.options = parse_options(cmd), !.errorcnt = errs,
                             !.h_parse = [errors |-> errs # 0,
                                          got_action |-> got_action(cmd)]]
    IN  IF cmd.help = "first" THEN [UpStart EXCEPT !.pc = "exit", !.exit = 0]
        ELSE IF cmd.help = "last" THEN [u EXCEPT !.pc = "exit", !.exit = 0]
        ELSE IF u.errorcnt # 0 THEN main_return(u)
        ELSE IF ~got_action(cmd) THEN main_return(u)
        ELSE LET v == main_enable(main_change_pw(main_image(u, cmd), cmd), cmd)
             IN  IF v.pc = "exit" THEN v ELSE execute_commands(v, is_open)

(***************************************************************************)
(* libnos: NuggetClient::StatusCodeString and LinuxCitadelClient.          *)
(***************************************************************************)
\* application.h, enum app_status: the enumerators the model has no
\* definition for yet (values as in Nugget OS)
app_status ==
    [APP_ERROR_BOGUS_ARGS |-> 1, APP_ERROR_INTERNAL |-> 2, APP_ERROR_TOO_MUCH |-> 3,
     APP_ERROR_RPC |-> 5, APP_LINE_NUMBER_BASE |-> 1879048192,
     MAX_APP_STATUS |-> 2147483647]

\* a uint32_t is kept as its two 16-bit halves <<high, low>>
u32(n) == <<n \div U16, n % U16>>

\* a - b in uint32_t arithmetic, for a and b below 2^31
sub_u32(a, b) ==
    IF a >= b THEN u32(a - b)
    ELSE LET e == ((a - b) + 2147483647) + 1      \* a - b + 2^31
         IN  <<32768 + e \div U16, e % U16>>

\* std::to_string of a uint32_t: its decimal digits, one string per value
to_string(x) == <<"decimal", x[1], x[2]>>

\* a std::string built from a literal and the numbers appended to it
String(literal, numbers) == [literal |-> literal, numbers |-> numbers]

\* NuggetClient.cpp lines 11-29
StatusCodeString(code) ==
    CASE code = APP_SUCCESS -> String("APP_SUCCESS", <<>>)
      [] code = app_status.APP_ERROR_BOGUS_ARGS -> String("APP_ERROR_BOGUS_ARGS", <<>>)
      [] code = app_status.APP_ERROR_INTERNAL -> String("APP_ERROR_INTERNAL", <<>>)
      [] code = app_status.APP_ERROR_TOO_MUCH -> String("APP_ERROR_TOO_MUCH", <<>>)
      [] code = app_status.APP_ERROR_RPC -> String("APP_ERROR_RPC", <<>>)
      [] OTHER ->
           IF code >= app_status.APP_LINE_NUMBER_BASE /\ code < app_status.MAX_APP_STATUS
           THEN String("APP_LINE_NUMBER ",
                       <<to_string(sub_u32(code, app_status.APP_LINE_NUMBER_BASE))>>)
           ELSE IF code >= APP_SPECIFIC_ERROR /\ code < app_status.APP_LINE_NUMBER_BASE
           THEN String("APP_SPECIFIC_ERROR  + ",
                       <<to_string(u32(app_status.APP_LINE_NUMBER_BASE)),
                         to_string(sub_u32(code, app_status.APP_LINE_NUMBER_BASE))>>)
           ELSE String("unknown", <<>>)

\* the codes StatusCodeString is called with: the named constants and their
\* neighbours, and the ends of the two ranges
StatusCodes ==
    (0 .. 40)
    \cup ((app_status.APP_LINE_NUMBER_BASE - 3) .. (app_status.APP_LINE_NUMBER_BASE + 8))
    \cup {app_status.MAX_APP_STATUS - 2, app_status.MAX_APP_STATUS - 1,
          app_status.MAX_APP_STATUS}

\* the most calls of OpenDev in a run
MaxOpenDev == 3

\* the instances of LinuxCitadelClient
Instances == {1, 2}

\* LinuxCitadelClient.cpp line 12: device_t *dev = nullptr
nullptr == 0

NoString == String("", <<>>)

ClStart ==
    [ code      |-> 0,           \* StatusCodeString: code
      str       |-> NoString,    \* what StatusCodeString returned
      dev       |-> nullptr,     \* the global dev; a handle is the number of the
                                 \* OpenDev call that returned it
      alive     |-> {},          \* the instances constructed and not destroyed
      h_opendev |-> 0,           \* calls of OpenDev
      h_held    |-> {},          \* handles OpenDev returned, not given to CloseDev
      h_closed  |-> <<>>,        \* the handles given to CloseDev, in order
      h_opened  |-> {} ]         \* the instances whose last open() left the client
                                 \* open and that have not called close() since

\* lines 24-30 without the test of line 25
open_unguarded(c, i, ok) ==
    LET d == [c EXCEPT !.h_opendev = @ + 1]
        e == IF ok THEN [d EXCEPT !.dev = d.h_opendev, !.h_held = @ \cup {d.h_opendev}]
             ELSE [d EXCEPT !.dev = nullptr]
    IN  [e EXCEPT !.h_opened = IF e.dev # nullptr THEN @ \cup {i} ELSE @ \ {i}]

\* lines 24-30: open() of instance i; ok: OpenDev returns a handle
open(c, i, ok) ==
    LET e == IF c.dev = nullptr
             THEN LET d == [c EXCEPT !.h_opendev = @ + 1]
                  IN  IF ok THEN [d EXCEPT !.dev = d.h_opendev,
                                           !.h_held = @ \cup {d.h_opendev}]
                      ELSE d
             ELSE c
    IN  [e EXCEPT !.h_opened = IF e.dev # nullptr THEN @ \cup {i} ELSE @ \ {i}]

\* lines 32-37: close() of instance i
close(c, i) ==
    LET e == IF c.dev # nullptr
             THEN [c EXCEPT !.h_closed = Append(@, c.dev), !.h_held = @ \ {c.dev}]
             ELSE c
    IN  [e EXCEPT !.dev = nullptr, !.h_opened = @ \ {i}]

\* lines 39-41
isOpen(c) == c.dev # nullptr

\* lines 20-22: the destructor of instance i
destroy(c, i) == [close(c, i) EXCEPT !.alive = @ \ {i}]

(***************************************************************************)
(* Actions of a call.                                                      *)
(***************************************************************************)
CtxInit == [app_id |-> APP_ID_NUGGET, params |-> NUGGET_PARAM_VERSION,
            args |-> FALSE, arg_len |-> 0, reply |-> FALSE, reply_len |-> FALSE]

Init ==
    /\ ctx = CtxInit
    /\ fr = FreshFrame(0)
    /\ dev \in DevInit
    /\ calls = 0
    /\ dg = DgIdle
    /\ up = UpStart
    /\ cl = ClStart

\* the caller calls nos_call_application
Call ==
    /\ fr.pc \in {"idle", "returned"}
    /\ calls < MaxCalls
    /\ \E a \in ArgChoices, p \in ReplyChoices :
          /\ ctx' = [CtxInit EXCEPT !.args = a[1], !.arg_len = a[2],
                                    !.reply = p[1], !.reply_len = p[2]]
          /\ fr' = [nos_call_application(ctx', p[3]) EXCEPT
                       !.h_stale = (fr.pc = "returned" /\ fr.h_last = "clear"
                                      /\ ~fr.h_last_ok /\ fr.h_go = fr.h_attempts)]
    /\ calls' = calls + 1
    /\ UNCHANGED <<dev, dg, up, cl>>

\* make_ready, line 209: a status read of the first get_status
MakeReadyInspect ==
    /\ fr.pc = "mr_inspect"
    /\ \E x \in StatusReads(dev) :
          LET f == StatusReadIssued(fr, x[2], x[1])
              g == get_status(x[2], x[1], f.gs_retries, NoStatus)
          IN  fr' = IF g.ret = GET_STATUS_CONTINUE THEN f
                    ELSE make_ready_inspect(ctx, LeaveGetStatus(f, g.ret), g)
    /\ UNCHANGED <<ctx, dev, calls, dg, up, cl>>

\* make_ready, line 227: the clear-status write
MakeReadyClear ==
    /\ fr.pc = "mr_clear"
    /\ \E r \in DevReturns :
          /\ fr' = make_ready_clear(fr, r)
          /\ dev' = IF r = 0 THEN DeviceClear(dev) ELSE dev
    /\ UNCHANGED <<ctx, calls, dg, up, cl>>

\* make_ready, line 233: a status read of the second get_status
MakeReadyRecheck ==
    /\ fr.pc = "mr_recheck"
    /\ \E x \in StatusReads(dev) :
          LET f == StatusReadIssued(fr, x[2], x[1])
              g == get_status(x[2], x[1], f.gs_retries, NoStatus)
          IN  fr' = IF g.ret = GET_STATUS_CONTINUE THEN f
                    ELSE make_ready_recheck(ctx, LeaveGetStatus(f, g.ret), g)
    /\ UNCHANGED <<ctx, dev, calls, dg, up, cl>>

\* send_command, line 270: one data write
SendData ==
    /\ fr.pc = "send_data"
    /\ \E r \in DevReturns : fr' = send_command_data(fr, r)
    /\ UNCHANGED <<ctx, dev, calls, dg, up, cl>>

\* send_command, line 307: the go write
SendGo ==
    /\ fr.pc = "send_go"
    /\ \E r \in DevReturns :
          /\ fr' = send_command_go(ctx, fr, r)
          /\ dev' = IF r = 0 THEN DeviceGo(dev) ELSE dev
    /\ UNCHANGED <<ctx, calls, dg, up, cl>>

\* poll_until_done, line 323: a status read of the poll loop
Poll ==
    /\ fr.pc = "poll"
    /\ \E x \in StatusReads(dev) :
          LET f == StatusReadIssued(fr, x[2], x[1])
              g == get_status(x[2], x[1], f.gs_retries, f.status)
          IN  fr' = IF g.ret = GET_STATUS_CONTINUE THEN f
                    ELSE poll_until_done(ctx, LeaveGetStatus(f, g.ret), g)
    /\ UNCHANGED <<ctx, dev, calls, dg, up, cl>>

\* receive_reply, line 353: one reply read
ReplyRead ==
    /\ fr.pc = "reply"
    /\ \E r \in DevReturns, d \in {0, 1} : fr' = receive_reply_read(fr, r, d)
    /\ UNCHANGED <<ctx, dev, calls, dg, up, cl>>

\* nos_call_application, line 439: the final clear-status write
FinalClear ==
    /\ fr.pc = "final_clear"
    /\ \E r \in DevReturns :
          /\ fr' = final_clear(fr, r)
          /\ dev' = IF r = 0 THEN DeviceClear(dev) ELSE dev
    /\ UNCHANGED <<ctx, calls, dg, up, cl>>

\* the application on the device finishes its work
DeviceFinish ==
    /\ dev.status = DEV_WORKING
    /\ \E code \in DoneCodes :
          \E rl \in (IF code = APP_SUCCESS THEN ReplyLens ELSE {0, 3}) :
          \E rc \in (IF code = APP_SUCCESS THEN ReplyCrcs(rl) ELSE {IntactCrc(rl)}) :
             dev' = [dev EXCEPT !.status = DoneWith(code),
                                !.reply_len = rl, !.reply_crc = rc]
    /\ UNCHANGED <<ctx, fr, calls, dg, up, cl>>

Next ==
    \/ Call
    \/ MakeReadyInspect
    \/ MakeReadyClear
    \/ MakeReadyRecheck
    \/ SendData
    \/ SendGo
    \/ Poll
    \/ ReplyRead
    \/ FinalClear
    \/ DeviceFinish

Spec == Init /\ [][Next]_vars

\* the steps of nos_call_application: each bus operation returns (the datagram
\* layer gives up after RETRY_COUNT rounds) and the code runs on
CallStep ==
    \/ MakeReadyInspect
    \/ MakeReadyClear
    \/ MakeReadyRecheck
    \/ SendData
    \/ SendGo
    \/ Poll
    \/ ReplyRead
    \/ FinalClear

\* the last call of a run; the device is in any of its initial states
FairInit ==
    /\ ctx = CtxInit
    /\ fr = FreshFrame(0)
    /\ dev \in DevInit
    /\ calls = MaxCalls - 1
    /\ dg = DgIdle
    /\ up = UpStart
    /\ cl = ClStart

\* the call runs on, and an application that was started finishes
SpecFair == FairInit /\ [][Next]_vars /\ WF_vars(CallStep) /\ WF_vars(DeviceFinish)

(***************************************************************************)
(* Actions of the datagram layer on its own.                               *)
(***************************************************************************)
DgInit ==
    /\ ctx = CtxInit
    /\ fr = FreshFrame(0)
    /\ dev = [status |-> APP_STATUS_IDLE, reply_len |-> 0, reply_crc |-> 0, obeys |-> TRUE]
    /\ calls = 0
    /\ dg = DgIdle
    /\ up = UpStart
    /\ cl = ClStart

\* nos_device_read is called
NosDeviceReadCall ==
    /\ dg.pc \in {"idle", "done"}
    /\ dg' = nos_device_enter("read")
    /\ UNCHANGED <<ctx, fr, dev, calls, up, cl>>

\* nos_device_write is called
NosDeviceWriteCall ==
    /\ dg.pc \in {"idle", "done"}
    /\ dg' = nos_device_enter("write")
    /\ UNCHANGED <<ctx, fr, dev, calls, up, cl>>

\* nos_device_read, lines 85-102: one call of dev->ops.read
NosDeviceRead ==
    /\ dg.pc = "loop" /\ dg.op = "read"
    /\ \E err \in DriverResults : dg' = nos_device_round(dg, err)
    /\ UNCHANGED <<ctx, fr, dev, calls, up, cl>>

\* nos_device_write, lines 111-128: one call of dev->ops.write
NosDeviceWrite ==
    /\ dg.pc = "loop" /\ dg.op = "write"
    /\ \E err \in DriverResults : dg' = nos_device_round(dg, err)
    /\ UNCHANGED <<ctx, fr, dev, calls, up, cl>>

DgNext ==
    \/ NosDeviceReadCall
    \/ NosDeviceWriteCall
    \/ NosDeviceRead
    \/ NosDeviceWrite

SpecDatagram == DgInit /\ [][DgNext]_vars

(***************************************************************************)
(* send_command on its own, entered from a make_ready that read an idle    *)
(* status, for every application, function, request length and capacity.   *)
(***************************************************************************)
AppIds == {APP_ID_NUGGET, APP_ID_TPM_REGISTER}
Params == {NUGGET_PARAM_VERSION, NUGGET_PARAM_FLASH_BLOCK}
\* *reply_len on entry, with one value beyond 16 bits
HintCaps == Caps \cup {65538}

IdleDevice == [status |-> APP_STATUS_IDLE, reply_len |-> 0, reply_crc |-> 0, obeys |-> TRUE]

\* the valid V1 record of a device
ValidRecord(d) ==
    CHOOSE rec \in DevStatusRecords(d) :
        /\ rec.magic = TRANSPORT_STATUS_MAGIC
        /\ rec.version = TRANSPORT_V1
        /\ rec.crc = crc16_status(rec)

\* the frame of a call of c, with capacity cap, when make_ready has read an
\* idle status at its first status read
ReadyFrame(c, cap) ==
    LET rec == ValidRecord(IdleDevice)
        f == StatusReadIssued(nos_call_application(c, cap), rec, 0)
        g == get_status(rec, 0, f.gs_retries, NoStatus)
    IN  make_ready_inspect(c, LeaveGetStatus(f, g.ret), g)

SendInit ==
    /\ ctx \in {[app_id |-> id, params |-> p, args |-> TRUE, arg_len |-> n,
                 reply |-> TRUE, reply_len |-> TRUE] :
                    id \in AppIds, p \in Params, n \in ArgLens}
    /\ \E cap \in HintCaps : fr = ReadyFrame(ctx, cap)
    /\ dev = IdleDevice
    /\ calls = 1
    /\ dg = DgIdle
    /\ up = UpStart
    /\ cl = ClStart

SendNext ==
    \/ SendData
    \/ SendGo

SpecSend == SendInit /\ [][SendNext]_vars

(***************************************************************************)
(* One call of NuggetClient::StatusCodeString.                             *)
(***************************************************************************)
StatusInit ==
    /\ ctx = CtxInit
    /\ fr = FreshFrame(0)
    /\ dev = IdleDevice
    /\ calls = 0
    /\ dg = DgIdle
    /\ up = UpStart
    /\ cl \in {[ClStart EXCEPT !.code = code] : code \in StatusCodes}

StatusCodeStringCall ==
    /\ cl.str = NoString
    /\ cl' = [cl EXCEPT !.str = StatusCodeString(cl.code)]
    /\ UNCHANGED <<ctx, fr, dev, calls, dg, up>>

SpecStatus == StatusInit /\ [][StatusCodeStringCall]_vars

(***************************************************************************)
(* The instances of LinuxCitadelClient and the calls made on them.         *)
(***************************************************************************)
ClientInit ==
    /\ ctx = CtxInit
    /\ fr = FreshFrame(0)
    /\ dev = IdleDevice
    /\ calls = 0
    /\ dg = DgIdle
    /\ up = UpStart
    /\ cl = ClStart

\* lines 17-18: the constructor
Construct ==
    /\ \E i \in Instances \ cl.alive : cl' = [cl EXCEPT !.alive = @ \cup {i}]
    /\ UNCHANGED <<ctx, fr, dev, calls, dg, up>>

Open ==
    /\ cl.h_opendev < MaxOpenDev
    /\ \E i \in cl.alive, ok \in BOOLEAN : cl' = open(cl, i, ok)
    /\ UNCHANGED <<ctx, fr, dev, calls, dg, up>>

Close ==
    /\ \E i \in cl.alive : cl' = close(cl, i)
    /\ UNCHANGED <<ctx, fr, dev, calls, dg, up>>

Destroy ==
    /\ \E i \in cl.alive : cl' = destroy(cl, i)
    /\ UNCHANGED <<ctx, fr, dev, calls, dg, up>>

ClientNext ==
    \/ Construct
    \/ Open
    \/ Close
    \/ Destroy

SpecClient == ClientInit /\ [][ClientNext]_vars

(***************************************************************************)
(* Actions of the updater.                                                 *)
(***************************************************************************)
UpInit ==
    /\ ctx = CtxInit
    /\ fr = FreshFrame(0)
    /\ dev = IdleDevice
    /\ calls = 0
    /\ dg = DgIdle
    /\ up = UpStart
    /\ cl = ClStart

\* the updater is run with a command line
Main ==
    /\ up.pc = "main"
    /\ \E cmd \in CmdLines, is_open \in BOOLEAN : up' = main(cmd, is_open)
    /\ UNCHANGED <<ctx, fr, dev, calls, dg, cl>>

\* do_erase, line 411
DoErase ==
    /\ up.pc = "erase"
    /\ \E rv \in CallResults : up' = do_erase(up, rv)
    /\ UNCHANGED <<ctx, fr, dev, calls, dg, cl>>

\* do_version, line 324
DoVersion ==
    /\ up.pc = "version"
    /\ \E rv \in CallResults : up' = do_call(up, NUGGET_PARAM_VERSION, rv)
    /\ UNCHANGED <<ctx, fr, dev, calls, dg, cl>>

\* try_update, line 279
TryUpdateCall ==
    /\ up.pc = "flash_block"
    /\ \E rv \in BlockResults : up' = try_update_call(up, rv)
    /\ UNCHANGED <<ctx, fr, dev, calls, dg, cl>>

\* try_update, line 293, when the loop made no call: rv is indeterminate
TryUpdateNoBlock ==
    /\ up.pc = "no_block"
    /\ \E rv \in Indeterminate : up' = try_update_return(up, rv)
    /\ UNCHANGED <<ctx, fr, dev, calls, dg, cl>>

\* do_change_pw, line 372
DoChangePw ==
    /\ up.pc = "change_pw"
    /\ \E rv \in CallResults : up' = do_change_pw(up, rv)
    /\ UNCHANGED <<ctx, fr, dev, calls, dg, cl>>

\* do_enable, line 398
DoEnable ==
    /\ up.pc = "enable"
    /\ \E rv \in CallResults : up' = do_enable(up, rv)
    /\ UNCHANGED <<ctx, fr, dev, calls, dg, cl>>

\* do_reboot, line 338
DoReboot ==
    /\ up.pc = "reboot"
    /\ \E rv \in CallResults : up' = do_call(up, NUGGET_PARAM_REBOOT, rv)
    /\ UNCHANGED <<ctx, fr, dev, calls, dg, cl>>

UpNext ==
    \/ Main
    \/ DoErase
    \/ DoVersion
    \/ TryUpdateCall
    \/ TryUpdateNoBlock
    \/ DoChangePw
    \/ DoEnable
    \/ DoReboot

SpecUpdater == UpInit /\ [][UpNext]_vars

(***************************************************************************)
(* Properties.                                                             *)
(***************************************************************************)
Returned == fr.pc = "returned"

\* the status nos_call_application holds has APP_STATUS_DONE and code c
PolledCode(c) == HasDone(fr.status.status) /\ APP_STATUS_CODE(fr.status.status) = c

\* C1, as stated: after nos_call_application has returned from a call that
\* reached the device, with APP_SUCCESS or with an error code, the last bus
\* operation it issued is a clear-status write.
C1_ClearBeforeEveryReturn ==
    (Returned /\ fr.h_touched) => fr.h_last = "clear"

\* C1, amended: when nos_call_application returns APP_SUCCESS the last bus
\* operation it issued is the clear-status write, and if that write succeeded a
\* device that goes idle on clear-status is in APP_STATUS_IDLE; when it returns
\* an error code the last bus operation is the one that failed or the status
\* read that decided the error, and it is a clear-status write only when the
\* clear-status write of make_ready itself failed.
C1_ClearOnSuccessOnly ==
    Returned =>
        /\ fr.res = APP_SUCCESS =>
              /\ fr.h_last = "clear"
              /\ (fr.h_last_ok /\ dev.obeys) => dev.status = APP_STATUS_IDLE
        /\ (fr.res # APP_SUCCESS /\ fr.h_last = "clear") => ~fr.h_last_ok

C1_Witness ==
    /\ Returned /\ fr.res = APP_SUCCESS /\ fr.h_go = 1
    /\ fr.h_last = "clear" /\ fr.h_last_ok /\ dev.obeys /\ dev.status = APP_STATUS_IDLE

\* C2: over one call at most 3 attempts and at most 3 go writes are made; a
\* call ends on a poll that read APP_ERROR_CHECKSUM only at the third attempt
\* (before that the sequence is run again from make_ready); a poll that read
\* any other non-success code ends the call at once, with that status read as
\* its last bus operation.
C2_ChecksumRetry ==
    /\ fr.h_go <= 3
    /\ fr.h_attempts <= 3
    /\ fr.h_go <= fr.h_attempts /\ fr.h_attempts <= fr.h_go + 1
    /\ (Returned /\ PolledCode(APP_ERROR_CHECKSUM) /\ fr.h_attempts = fr.h_go
            /\ fr.h_last = "status" /\ fr.h_gsret = GET_STATUS_OK)
          => (fr.h_go = 3 /\ fr.res = APP_ERROR_IO)
    /\ (~Returned /\ fr.h_attempts >= 2 /\ fr.h_go < fr.h_attempts)
          => PolledCode(APP_ERROR_CHECKSUM)
    /\ (HasDone(fr.status.status)
            /\ APP_STATUS_CODE(fr.status.status) \notin {APP_SUCCESS, APP_ERROR_CHECKSUM})
          => (Returned /\ fr.h_last = "status" /\ fr.h_attempts = fr.h_go)

C2_Witness ==
    /\ Returned /\ fr.res = APP_SUCCESS /\ fr.h_go = 3 /\ fr.h_attempts = 3

\* C3: when the device reports DONE with a code that is neither APP_SUCCESS
\* nor APP_ERROR_CHECKSUM, nos_call_application returns exactly that code and
\* has issued no reply read in the call.
C3_ErrorCodeVerbatim ==
    (Returned /\ HasDone(fr.status.status)
        /\ APP_STATUS_CODE(fr.status.status) \notin {APP_SUCCESS, APP_ERROR_CHECKSUM})
      => (fr.res = APP_STATUS_CODE(fr.status.status) /\ fr.h_rreads = 0)

C3_Witness ==
    /\ Returned /\ fr.res = APP_SPECIFIC_ERROR /\ PolledCode(APP_SPECIFIC_ERROR)
    /\ fr.status.reply_len = 3 /\ ctx.reply /\ fr.h_cap = 4089 /\ fr.h_rreads = 0

\* the driver results of the datagram operation in progress that were -EAGAIN
DgAgain == {i \in 1..Len(dg.h_errs) : dg.h_errs[i] = -EAGAIN}

\* C4: one nos_device_read / nos_device_write calls the driver at most 25
\* times, sleeps once for every -EAGAIN, calls the driver again only after
\* -EAGAIN, returns 0 or the (positive) error at the first other result, and
\* returns ETIMEDOUT exactly when 25 calls gave -EAGAIN; with k leading
\* -EAGAIN and then success it returns 0 after exactly k sleeps.
C4_DatagramRetry ==
    LET n == Len(dg.h_errs)
    IN  /\ n <= 25
        /\ dg.sleeps = Cardinality(DgAgain)
        /\ \A i \in 1..(n - 1) : dg.h_errs[i] = -EAGAIN
        /\ dg.pc = "loop" => (n < 25 /\ \A i \in 1..n : dg.h_errs[i] = -EAGAIN)
        /\ dg.pc = "done" =>
              /\ n >= 1
              /\ IF dg.h_errs[n] = -EAGAIN
                 THEN n = 25 /\ dg.ret = ETIMEDOUT
                 ELSE dg.ret = -dg.h_errs[n] /\ dg.sleeps = n - 1
              /\ dg.h_errs[n] = 0 => dg.ret = 0

C4_Witness ==
    /\ dg.pc = "done" /\ dg.op = "read" /\ dg.ret = 0
    /\ dg.h_errs = <<-EAGAIN, -EAGAIN, 0>> /\ dg.sleeps = 2

RECURSIVE SumLen(_)
SumLen(w) == IF w = <<>> THEN 0 ELSE w[1].len + SumLen(Tail(w))

\* ceil(n / MAX_DEVICE_TRANSFER)
Datagrams(n) == (n + MAX_DEVICE_TRANSFER - 1) \div MAX_DEVICE_TRANSFER

\* C5, as stated: when send_command has issued all its data writes for a
\* request of N = arg_len bytes, they are ceil(N/MTU) writes (one write of no
\* bytes when N = 0), the first without CMD_MORE_TO_COME and the others with
\* it, each with its length in the param field, and they carry N bytes.
C5_MtuSplit ==
    fr.pc = "send_go" =>
        LET w == fr.h_writes
            N == ctx.arg_len
        IN  /\ Len(w) = (IF N = 0 THEN 1 ELSE Datagrams(N))
            /\ ~w[1].more
            /\ \A i \in 2..Len(w) : w[i].more
            /\ \A i \in 1..Len(w) : w[i].param = w[i].len
            /\ SumLen(w) = N

\* C6: one get_status issues at most 3 status reads; it reads again only
\* after a V1 record whose crc mismatched, returns at the first record that is
\* not such a mismatch, and returns a protocol error after 3 mismatches; after
\* two mismatches and then a valid V1 record it has returned OK with exactly 3
\* status reads.
C6_StatusCrcRetry ==
    /\ fr.h_sreads <= 3
    /\ fr.h_gsret = GET_STATUS_CONTINUE => (fr.h_crcbad = fr.h_sreads /\ fr.h_sreads < 3)
    /\ fr.h_gsret \in {GET_STATUS_OK, GET_STATUS_ERROR_IO} => fr.h_crcbad = fr.h_sreads - 1
    /\ fr.h_gsret = GET_STATUS_ERROR_PROTOCOL =>
          \/ fr.h_crcbad = 3 /\ fr.h_sreads = 3
          \/ fr.h_crcbad = fr.h_sreads - 1
    /\ fr.h_crcbad = 3 => fr.h_gsret = GET_STATUS_ERROR_PROTOCOL
    /\ (fr.h_crcbad = 2 /\ fr.h_gsret = GET_STATUS_OK) => fr.h_sreads = 3

C6_Witness ==
    /\ fr.pc = "send_data" /\ fr.h_gsret = GET_STATUS_OK /\ ~fr.h_legacy
    /\ fr.h_crcbad = 2 /\ fr.h_sreads = 3

\* the call is past a receive_reply that returned APP_SUCCESS
ReplyAccepted ==
    /\ fr.h_passes >= 1
    /\ \/ fr.pc = "final_clear"
       \/ Returned /\ fr.res = APP_SUCCESS

\* C7: for a V1 status receive_reply makes at most 3 passes over the reply; it
\* starts a further pass only after a pass whose crc differs from
\* status.reply_crc, returns APP_SUCCESS at the first pass whose crc is equal,
\* and returns APP_ERROR_IO when 3 passes differ.
C7_ReplyCrcRetry ==
    fr.status.version = TRANSPORT_V1 =>
        /\ fr.h_passes <= 3
        /\ fr.pc = "reply" => fr.h_mismatch = fr.h_passes - 1
        /\ ReplyAccepted => fr.h_mismatch = fr.h_passes - 1
        /\ fr.h_mismatch = 3 => (Returned /\ fr.res = APP_ERROR_IO /\ fr.h_passes = 3)
        /\ (Returned /\ fr.h_passes >= 1 /\ fr.h_last = "reply" /\ fr.h_last_ok)
              => (fr.h_mismatch = 3 /\ fr.res = APP_ERROR_IO)

C7_Witness ==
    /\ Returned /\ fr.res = APP_SUCCESS /\ fr.status.version = TRANSPORT_V1
    /\ fr.h_passes = 3 /\ fr.h_mismatch = 2 /\ fr.h_rreads = 6

\* C8: a status record without the magic is returned by get_status as
\* GET_STATUS_OK at once, with version TRANSPORT_LEGACY and without a crc
\* check; under a legacy status receive_reply makes exactly one pass and
\* accepts it whatever its crc: the call fails in receive_reply only when a
\* reply read itself failed.
C8_LegacyNoCrc ==
    /\ fr.h_legacy => (fr.h_gsret = GET_STATUS_OK /\ fr.h_crcbad = fr.h_sreads - 1)
    /\ (fr.h_legacy /\ fr.h_attempts = fr.h_go) => fr.status.version = TRANSPORT_LEGACY
    /\ (fr.status.version = TRANSPORT_LEGACY /\ fr.h_passes >= 1) =>
          /\ fr.h_passes = 1
          /\ fr.pc \in {"reply", "final_clear", "returned"}
          /\ (Returned /\ fr.res # APP_SUCCESS) => (fr.h_last = "reply" /\ ~fr.h_last_ok)

C8_Witness ==
    /\ Returned /\ fr.res = APP_SUCCESS /\ fr.status.version = TRANSPORT_LEGACY
    /\ fr.h_passes = 1 /\ fr.h_mismatch = 1 /\ fr.h_rreads = 2

\* the caller gave a reply buffer with capacity and the device reported data
ReplyExpected == ctx.reply /\ fr.h_cap # 0 /\ fr.status.reply_len # 0

\* C9: when nos_call_application returns APP_SUCCESS, *reply_len is the
\* minimum of the caller's capacity on entry and the reply_len of the status
\* if the caller gave a buffer with capacity and the device reported data, and
\* is 0 otherwise; reply reads are issued only in the first case.
C9_ReplyLength ==
    /\ (Returned /\ fr.h_touched /\ fr.res = APP_SUCCESS) =>
          /\ fr.reply_len = (IF ReplyExpected THEN MIN(fr.h_cap, fr.status.reply_len) ELSE 0)
          /\ (fr.h_rreads > 0) <=> ReplyExpected
    /\ fr.h_rreads > 0 => (ReplyExpected /\ PolledCode(APP_SUCCESS))

C9_Witness ==
    /\ Returned /\ fr.res = APP_SUCCESS /\ fr.h_cap = 2 /\ fr.status.reply_len = 3
    /\ fr.reply_len = 2 /\ fr.h_rreads = 1

\* the arguments of the call in progress are those lines 400-402 reject
BadArguments ==
    \/ ctx.arg_len # 0 /\ ~ctx.args
    \/ ~ctx.reply_len
    \/ fr.h_cap # 0 /\ ~ctx.reply

\* C10: a call with arg_len non-zero and args null, with a null reply_len
\* pointer, or with *reply_len non-zero and reply null returns APP_ERROR_IO
\* and issues no bus operation.
C10_InvalidArgs ==
    (calls > 0 /\ BadArguments) =>
        (Returned /\ fr.res = APP_ERROR_IO /\ ~fr.h_touched /\ fr.h_attempts = 0)

C10_Witness ==
    /\ Returned /\ fr.res = APP_ERROR_IO /\ ~fr.h_touched
    /\ ctx.args /\ ctx.reply_len /\ ~ctx.reply /\ fr.h_cap = 2

\* C11, as stated: the go write carries the command word CMD_ID(app_id) |
\* CMD_PARAM(params), and the crc of its command_info is the crc over the
\* 16-bit arg_len, exactly the arg bytes that the data writes sent, the 16-bit
\* reply_len_hint of the command_info, and the command word that is written.
C11_CommandCrc ==
    fr.h_info.sent =>
        /\ fr.h_info.command = GoCommand(ctx)
        /\ fr.h_info.crc = crc16_request(ctx.arg_len % U16, SumLen(fr.h_writes),
                                         fr.h_info.reply_len_hint, fr.h_info.command)

\* the try_update calls of the do_update of step k that have returned
SlotsOf(k) == SelectSeq(up.h_slots, LAMBDA e : e.step = k)

\* the try_update in progress returns in this step
SlotEnds == Len(up'.h_slots) > Len(up.h_slots)

\* C12: for each flash block try_update calls NUGGET_PARAM_FLASH_BLOCK at most
\* 4 times: a step that makes a call is at most the 4th call for its block;
\* the same block is sent again only after NUGGET_ERROR_RETRY; the next block
\* starts with the full budget of 3 retries; and when the slot ends with
\* NUGGET_ERROR_RETRY the call just made was the 4th for its block.
C12_BlockRetry ==
    [][up.pc = "flash_block" =>
          /\ up.h_tries <= 3
          /\ up.retries = 3 - up.h_tries
          /\ (~SlotEnds /\ up'.pc = "flash_block") =>
                \/ /\ up'.h_tries = up.h_tries + 1
                   /\ up'.rv = NUGGET_ERROR_RETRY
                   /\ up'.data = up.data
                   /\ up'.h_blocks = up.h_blocks + (IF up.h_tries = 0 THEN 1 ELSE 0)
                \/ /\ up'.h_tries = 0
                   /\ up'.retries = 3
                   /\ up'.data.offset = up.data.offset + CHIP_FLASH_BANK_SIZE
          /\ (SlotEnds /\ up'.h_slots[Len(up.h_slots) + 1].rv = NUGGET_ERROR_RETRY)
                => up.h_tries = 3
      ]_vars

\* the second block of a slot is at its 4th call, after a first block that
\* succeeded at its 4th call
C12_Witness ==
    /\ up.pc = "flash_block" /\ up.h_blocks = 2 /\ up.h_tries = 3 /\ up.h_retried = 6
    /\ up.retries = 0

\* the offsets of slot A and slot B of the do_update of step k
SlotOffsets(k) ==
    IF Actions[k] = "rw" THEN <<CHIP_RW_A_MEM_OFF, CHIP_RW_B_MEM_OFF>>
    ELSE <<CHIP_RO_A_MEM_OFF, CHIP_RO_B_MEM_OFF>>

\* C13: do_update runs try_update for slot A first, with the image_size of
\* the header of slot A; if that returns APP_SUCCESS it returns APP_SUCCESS
\* without a try_update for slot B; otherwise it runs try_update for slot B
\* with the image_size of the header of slot B and returns what that returns.
C13_SlotOrder ==
    /\ \A j \in DOMAIN up.h_updates :
          LET d == up.h_updates[j]
              e == SlotsOf(d.step)
              off == SlotOffsets(d.step)
          IN  /\ Len(e) \in {1, 2}
              /\ e[1].offset = off[1] /\ e[1].size = image_size(up.image, off[1])
              /\ e[1].rv = APP_SUCCESS => (Len(e) = 1 /\ d.rv = APP_SUCCESS)
              /\ e[1].rv # APP_SUCCESS =>
                    /\ Len(e) = 2
                    /\ e[2].offset = off[2] /\ e[2].size = image_size(up.image, off[2])
                    /\ d.rv = e[2].rv
    /\ up.pc \in {"flash_block", "no_block"} =>
          LET e == SlotsOf(up.step)
              off == SlotOffsets(up.step)
          IN  /\ up.in_B <=> Len(e) = 1
              /\ ~up.in_B => (Len(e) = 0 /\ up.h_from = off[1]
                                /\ up.h_size = image_size(up.image, off[1]))
              /\ up.in_B => (e[1].rv # APP_SUCCESS /\ e[1].offset = off[1]
                               /\ up.h_from = off[2]
                               /\ up.h_size = image_size(up.image, off[2]))

\* both slots of the RW update failed after writes, slot B with another
\* size and another error than slot A
C13_Witness ==
    /\ Len(up.h_updates) = 1 /\ up.h_updates[1].rv = NUGGET_ERROR_LOCKED
    /\ Len(up.h_slots) = 2
    /\ up.h_slots[1].rv = APP_ERROR_IO /\ up.h_slots[1].size = 2049
    /\ up.h_slots[1].blocks = 2
    /\ up.h_slots[2].rv = NUGGET_ERROR_LOCKED /\ up.h_slots[2].size = 2048
    /\ up.h_slots[2].blocks = 1

\* ceil(n / CHIP_FLASH_BANK_SIZE)
Banks(n) == (n + CHIP_FLASH_BANK_SIZE - 1) \div CHIP_FLASH_BANK_SIZE

\* C14: every flash block sent carries the CHIP_FLASH_BANK_SIZE bytes of the
\* image at its offset and the digest of its offset followed by its payload;
\* the blocks of a slot are sent at offset, offset + CHIP_FLASH_BANK_SIZE, ...
\* in this order, each below offset + image_size, and a slot that returns
\* APP_SUCCESS after writes has sent all of them.
C14_BlockDigest ==
    /\ up.h_last # NoBlock =>
          /\ up.h_last.payload = [from |-> up.h_last.offset, len |-> CHIP_FLASH_BANK_SIZE]
          /\ up.h_last.block_digest =
                compute_digest(<< <<"offset", up.h_last.offset>>,
                                  <<"payload", up.h_last.payload>> >>)
    /\ up.pc = "flash_block" =>
          /\ up.data.offset = up.h_from + CHIP_FLASH_BANK_SIZE *
                                 (IF up.h_tries = 0 THEN up.h_blocks ELSE up.h_blocks - 1)
          /\ up.data.offset < up.h_from + up.h_size
          /\ up.h_tries > 0 => up.h_last = up.data
    /\ \A i \in DOMAIN up.h_slots :
          LET e == up.h_slots[i]
          IN  /\ e.blocks <= Banks(e.size)
              /\ (e.blocks > 0 /\ e.rv = APP_SUCCESS) => e.blocks = Banks(e.size)

\* the second block of slot A of the RW image has been sent
C14_Witness ==
    /\ up.pc = "flash_block" /\ up.h_tries = 1 /\ up.h_blocks = 2
    /\ up.h_last.offset = CHIP_RW_A_MEM_OFF + CHIP_FLASH_BANK_SIZE
    /\ up.h_last.payload.from = CHIP_RW_A_MEM_OFF + CHIP_FLASH_BANK_SIZE

\* the requested actions, in the order of execute_commands
RequestedActions == SelectSeq(Actions, LAMBDA a : Requested(up.options, a))

\* C15: with erase code 0 execute_commands begins the requested actions in
\* the order version, RW update, RO update, change-password, enable, reboot,
\* begins an action only when every action before it returned APP_SUCCESS,
\* and returns at once when an action returned anything else; with a non-zero
\* erase code it calls NUGGET_PARAM_NUKE_FROM_ORBIT only and begins no action,
\* whatever that call returns.
C15_ActionOrder ==
    LET n == Len(up.h_actions)
        m == Len(up.h_rvs)
    IN  IF up.options.erase_code # 0
        THEN /\ up.h_actions \in {<<>>, <<"erase">>}
             /\ up.h_params \subseteq {NUGGET_PARAM_NUKE_FROM_ORBIT}
             /\ m = 1 => up.pc = "exit"
             /\ (up.pc = "exit" /\ up.h_executed /\ up.h_is_open) => (n = 1 /\ m = 1)
        ELSE /\ n <= Len(RequestedActions)
             /\ up.h_actions = SubSeq(RequestedActions, 1, n)
             /\ m \in {n - 1, n} /\ m >= 0
             /\ \A i \in 1..(n - 1) : up.h_rvs[i] = APP_SUCCESS
             /\ (m = n /\ n > 0 /\ up.h_rvs[n] # APP_SUCCESS) => up.pc = "exit"
             /\ m = n - 1 => up.pc \notin {"main", "exit"}
             /\ (up.pc = "exit" /\ up.h_executed /\ up.h_is_open
                    /\ \A i \in 1..m : up.h_rvs[i] = APP_SUCCESS)
                   => up.h_actions = RequestedActions

\* change-password failed after version and both updates; enable and reboot
\* were requested and were not begun
C15_Witness ==
    /\ up.pc = "exit" /\ up.options.erase_code = 0
    /\ up.h_actions = <<"version", "rw", "ro", "change_pw">>
    /\ up.h_rvs = <<APP_SUCCESS, APP_SUCCESS, APP_SUCCESS, APP_ERROR_IO>>
    /\ up.options.enable_ro /\ up.options.reboot
    /\ up.h_params = {NUGGET_PARAM_VERSION, NUGGET_PARAM_FLASH_BLOCK,
                      NUGGET_PARAM_CHANGE_UPDATE_PASSWORD}

\* the exit code the updater is to end with: 1 when the connection failed, 0
\* when every action succeeded, and k + 1 when the k-th of version, RW update,
\* RO update, change-password, enable, reboot failed
ExitCodeClaimed ==
    IF ~up.h_is_open THEN 1
    ELSE IF \A i \in DOMAIN up.h_rvs : up.h_rvs[i] = APP_SUCCESS THEN 0
    ELSE 1 + (CHOOSE k \in 1..Len(Actions) : Actions[k] = up.h_actions[Len(up.h_actions)])

\* C16, as stated: when main returns after execute_commands ran (without an
\* erase code), the exit code is 0 on success, 1 on connection failure, and
\* 2..7 when version, RW update, RO update, change-password, enable, reboot
\* failed.
C16_ExitCodes ==
    (up.pc = "exit" /\ up.h_executed /\ up.options.erase_code = 0)
        => up.exit = ExitCodeClaimed

\* a call of nos_call_application is in progress
InCall == fr.pc \notin {"idle", "returned"}

\* C17: when every application that was started reports APP_STATUS_DONE after
\* finitely many status reads, every call of nos_call_application returns;
\* and the poll loop is left only by a get_status that failed or by a status
\* with APP_STATUS_DONE: while status reads succeed without APP_STATUS_DONE
\* the call stays in the poll loop.
C17_Termination ==
    /\ InCall ~> Returned
    /\ [][(fr.pc = "poll" /\ fr'.pc # "poll")
            => (fr'.h_gsret \in {GET_STATUS_ERROR_IO, GET_STATUS_ERROR_PROTOCOL}
                  \/ HasDone(fr'.status.status))]_vars

\* a call has returned after three attempts, each polled to APP_STATUS_DONE
C17_Witness ==
    /\ Returned /\ fr.res = APP_ERROR_IO /\ fr.h_go = 3 /\ PolledCode(APP_ERROR_CHECKSUM)
    /\ fr.h_last = "status" /\ fr.h_gsret = GET_STATUS_OK

\* the get_status entered at position p returns in this step
GetStatusReturns(p) == fr.pc = p /\ fr'.pc # p

\* the status the device shows to a status read is APP_STATUS_IDLE
ShowsIdle == dev.status = APP_STATUS_IDLE

\* make_ready after its first get_status: the clear-status write and the
\* second get_status
MakeReadySecondHalf ==
    /\ (fr.pc = "mr_clear" /\ fr' # fr) =>
          /\ fr'.h_last = "clear"
          /\ IF fr'.h_last_ok THEN fr'.pc = "mr_recheck"
             ELSE fr'.pc = "returned" /\ fr'.res = APP_ERROR_IO
    /\ GetStatusReturns("mr_recheck") =>
          IF fr'.h_gsret = GET_STATUS_OK /\ ShowsIdle THEN fr'.pc = "send_data"
          ELSE fr'.pc = "returned" /\ fr'.res = APP_ERROR_IO
    /\ (fr.pc # "send_data" /\ fr'.pc = "send_data") =>
          (fr'.h_last = "status" /\ fr'.h_gsret = GET_STATUS_OK /\ ShowsIdle)

\* C18, as stated: whenever the first get_status of make_ready does not give
\* an OK and idle status, also when its status read failed, make_ready writes
\* clear-status and reads the status again; it returns APP_ERROR_IO when that
\* status is not idle and goes on to send the args only after a status read
\* that gave APP_STATUS_IDLE.
C18_ClearUnlessIdle ==
    [][/\ GetStatusReturns("mr_inspect") =>
             IF fr'.h_gsret = GET_STATUS_OK /\ ShowsIdle THEN fr'.pc = "send_data"
             ELSE fr'.pc = "mr_clear"
       /\ MakeReadySecondHalf]_vars

\* C18, amended: when the first get_status of make_ready gives an OK status
\* that is not idle or reports a protocol error, make_ready writes
\* clear-status and reads the status again; when its status read fails with
\* an I/O error make_ready returns APP_ERROR_IO at once, with that read as the
\* last bus operation.  It returns APP_ERROR_IO when the clear-status write
\* or the second get_status fails or the status is still not idle, and goes
\* on to send the args only after a status read that gave APP_STATUS_IDLE.
C18_ClearUnlessIoError ==
    [][/\ GetStatusReturns("mr_inspect") =>
             IF fr'.h_gsret = GET_STATUS_OK /\ ShowsIdle THEN fr'.pc = "send_data"
             ELSE IF fr'.h_gsret = GET_STATUS_ERROR_IO
             THEN /\ fr'.pc = "returned" /\ fr'.res = APP_ERROR_IO
                  /\ fr'.h_last = "status" /\ ~fr'.h_last_ok
             ELSE fr'.pc = "mr_clear"
       /\ MakeReadySecondHalf]_vars

\* the first status read of the first call failed while the device was busy:
\* the call has returned and the device, which obeys clear-status, is still
\* busy
C18_Witness ==
    /\ Returned /\ fr.res = APP_ERROR_IO /\ calls = 1 /\ fr.h_attempts = 1 /\ fr.h_go = 0
    /\ fr.h_last = "status" /\ ~fr.h_last_ok /\ fr.h_gsret = GET_STATUS_ERROR_IO
    /\ dev.obeys /\ dev.status = DEV_WORKING

\* C19, as stated: whenever get_status has reported a protocol error the call
\* has returned APP_ERROR_IO, the status read being its last bus operation.
C19_ProtocolErrorEndsCall ==
    fr.h_gsret = GET_STATUS_ERROR_PROTOCOL =>
        (Returned /\ fr.res = APP_ERROR_IO /\ fr.h_last = "status")

\* C19, amended: a protocol error of the second get_status of make_ready or
\* of a get_status of the poll loop makes nos_call_application return
\* APP_ERROR_IO without a further bus operation; a protocol error of the
\* first get_status of make_ready does not: the clear-status write and the
\* second get_status follow.
C19_ProtocolErrorAfterInspect ==
    [][(fr'.h_gsret = GET_STATUS_ERROR_PROTOCOL /\ fr' # fr) =>
          IF fr.pc = "mr_inspect" THEN fr'.pc = "mr_clear"
          ELSE /\ fr.pc \in {"mr_recheck", "poll"}
               /\ fr'.pc = "returned" /\ fr'.res = APP_ERROR_IO /\ fr'.h_last = "status"]_vars

\* the first get_status of make_ready read three records with a wrong crc
C19_Witness ==
    /\ fr.pc = "mr_clear" /\ fr.h_gsret = GET_STATUS_ERROR_PROTOCOL
    /\ fr.h_crcbad = 3 /\ fr.h_sreads = 3

\* the phase of an attempt a position belongs to
Phase(pc) ==
    CASE pc \in {"mr_inspect", "mr_clear", "mr_recheck"} -> 1
      [] pc = "send_data" -> 2
      [] pc = "send_go" -> 3
      [] pc = "poll" -> 4
      [] pc = "reply" -> 5
      [] pc = "final_clear" -> 6
      [] OTHER -> 7

\* the bus operation issued at a position
OpAt(pc) ==
    CASE pc \in {"mr_inspect", "mr_recheck", "poll"} -> "status"
      [] pc \in {"mr_clear", "final_clear"} -> "clear"
      [] pc = "send_data" -> "data"
      [] pc = "send_go" -> "go"
      [] OTHER -> "reply"

\* C20: every step of a call issues the bus operation of its phase; within
\* an attempt the phases follow in the order make_ready, data writes, go
\* write, poll, reply reads, final clear-status write, and a new attempt
\* begins only from a poll that read APP_ERROR_CHECKSUM; the go write follows
\* data writes that all succeeded and is the only one of its attempt; reply
\* reads are issued only under a status with APP_STATUS_DONE and APP_SUCCESS;
\* after a bus operation that failed the call issues no further operation.
C20_PhaseOrder ==
    [][(InCall /\ fr' # fr) =>
          /\ fr'.h_last = OpAt(fr.pc)
          /\ \/ Phase(fr'.pc) >= Phase(fr.pc)
             \/ /\ fr.pc = "poll" /\ fr'.pc = "mr_inspect"
                /\ fr'.h_attempts = fr.h_attempts + 1
                /\ HasDone(fr'.status.status)
                /\ APP_STATUS_CODE(fr'.status.status) = APP_ERROR_CHECKSUM
          /\ ~fr'.h_last_ok => fr'.pc = "returned"
          /\ (~fr'.h_last_ok /\ fr.pc # "final_clear") => fr'.res = APP_ERROR_IO
          /\ fr'.pc = "send_go" =>
                /\ fr.pc = "send_data" /\ fr'.h_last_ok
                /\ SumLen(fr'.h_writes) = ctx.arg_len % U16
          /\ fr.pc = "send_go" =>
                /\ fr'.h_go = fr.h_go + 1 /\ fr'.h_go = fr'.h_attempts
                /\ fr'.pc \in {"poll", "returned"}
          /\ fr.pc # "send_go" => fr'.h_go = fr.h_go
          /\ fr.pc = "reply" =>
                (HasDone(fr.status.status)
                   /\ APP_STATUS_CODE(fr.status.status) = APP_SUCCESS)
          /\ (fr'.pc = "reply" /\ fr.pc # "reply") => (fr.pc = "poll" /\ fr'.h_last_ok)
          /\ fr'.pc = "final_clear" => (fr.pc \in {"poll", "reply"} /\ fr'.h_last_ok)
      ]_vars

\* a call has returned APP_SUCCESS after three data writes, a go write and
\* two reply reads
C20_Witness ==
    /\ Returned /\ fr.res = APP_SUCCESS /\ fr.h_attempts = 1 /\ fr.h_go = 1
    /\ Len(fr.h_writes) = 3 /\ fr.h_rreads = 2 /\ fr.h_last = "clear"

\* L: the bytes receive_reply reads in one pass
ReplyBytes == MIN(fr.h_cap, fr.status.reply_len)

RECURSIVE CrcOver(_, _)
\* the crc16 of the concatenation of the first k chunks of reads, from 0
CrcOver(reads, k) ==
    IF k = 0 THEN 0 ELSE crc16_update(reads[k].d, reads[k].len, CrcOver(reads, k - 1))

\* C21: once receive_reply is entered L = min(capacity, reply_len) > 0; a
\* pass reads ceil(L / MTU) datagrams, each of min(MTU, what is left) bytes,
\* the first without CMD_MORE_TO_COME and the later ones with it, in every
\* pass alike; the crc held during a pass and the crc compared with
\* status.reply_crc at its end is the crc16, from 0, of the concatenation of
\* the datagrams of that pass.
C21_ReplyChunks ==
    fr.h_passes >= 1 =>
        LET L == ReplyBytes
            n == Datagrams(L)
            reads == fr.h_reads
        IN  /\ L > 0
            /\ Len(reads) <= n
            /\ \A i \in 1..Len(reads) :
                  /\ reads[i].more = (i > 1)
                  /\ reads[i].len = MIN(L - (i - 1) * MAX_DEVICE_TRANSFER, MAX_DEVICE_TRANSFER)
            /\ fr.pc = "reply" =>
                  /\ Len(reads) < n
                  /\ fr.crc = CrcOver(reads, Len(reads))
                  /\ fr.recv_more = (Len(reads) > 0)
                  /\ fr.h_rreads = (fr.h_passes - 1) * n + Len(reads)
            /\ ReplyAccepted =>
                  /\ Len(reads) = n /\ SumLen(reads) = L
                  /\ fr.h_rreads = fr.h_passes * n
                  /\ fr.status.version = TRANSPORT_V1 => CrcOver(reads, n) = fr.status.reply_crc
            /\ (Returned /\ fr.res # APP_SUCCESS /\ fr.h_last = "reply") =>
                  IF fr.h_last_ok
                  THEN /\ Len(reads) = n /\ fr.h_rreads = CRC_RETRY_COUNT * n
                       /\ CrcOver(reads, n) # fr.status.reply_crc
                  ELSE fr.h_rreads = (fr.h_passes - 1) * n + Len(reads) + 1

\* a second pass of two datagrams was accepted after a first pass whose crc
\* differed
C21_Witness ==
    /\ Returned /\ fr.res = APP_SUCCESS /\ fr.status.version = TRANSPORT_V1
    /\ ReplyBytes = 2045 /\ fr.h_passes = 2 /\ fr.h_rreads = 4
    /\ Len(fr.h_reads) = 2 /\ ~fr.h_reads[1].more /\ fr.h_reads[2].more

\* C22: a final clear-status write that fails does not change what the call
\* returns: APP_SUCCESS, with *reply_len as receive_reply left it (0 without
\* a reply); the device is left with its done status.  In the call after it
\* make_ready finds that status at its first status read, and the args are
\* sent only after make_ready's own clear-status write succeeded and the
\* status read after it showed APP_STATUS_IDLE.
C22_FinalClearIgnored ==
    /\ [](fr.h_stale /\ fr.pc = "mr_inspect" /\ fr.h_attempts = 1 => ~ShowsIdle)
    /\ [][/\ (fr.pc = "final_clear" /\ fr' # fr /\ ~fr'.h_last_ok) =>
                /\ fr'.pc = "returned" /\ fr'.res = APP_SUCCESS
                /\ fr'.reply_len = fr.reply_len
                /\ fr'.reply_len = (IF ReplyExpected THEN ReplyBytes ELSE 0)
                /\ dev' = dev /\ dev.status = DoneWith(APP_SUCCESS)
          /\ (fr.h_stale /\ fr.h_attempts = 1 /\ fr.pc # "send_data"
                 /\ fr'.pc = "send_data") =>
                (fr.pc = "mr_recheck" /\ ShowsIdle)
          /\ (fr.h_stale /\ fr.pc # "mr_recheck" /\ fr'.pc = "mr_recheck") =>
                (fr.pc = "mr_clear" /\ fr'.h_last = "clear" /\ fr'.h_last_ok)]_vars

\* the call after a failed final clear-status write has made the device
\* ready and is about to send its args
C22_Witness ==
    /\ fr.h_stale /\ fr.pc = "send_data" /\ fr.h_attempts = 1
    /\ fr.h_last = "status" /\ ShowsIdle

\* the do_update in progress returns in this step
UpdateEnds == Len(up'.h_updates) > Len(up.h_updates)

\* the entry of the try_update that returns in this step
NewSlot == up'.h_slots[Len(up.h_slots) + 1]

\* a try_update returns in this step, and up to and including this step the
\* device has answered NUGGET_ERROR_LOCKED to every block of slot A and
\* APP_SUCCESS to every block of slot B
StubAnswers ==
    /\ SlotEnds /\ up.h_stub
    /\ up.pc = "flash_block" =>
          NewSlot.rv = (IF up.in_B THEN APP_SUCCESS ELSE NUGGET_ERROR_LOCKED)

\* a block call whose result is neither APP_SUCCESS nor an absorbed
\* NUGGET_ERROR_RETRY ends its try_update with that result and without a
\* further block
BlockFailureEndsSlot ==
    up.pc = "flash_block" =>
        /\ (~SlotEnds /\ up' # up) =>
              \/ up'.rv = APP_SUCCESS /\ up'.h_blocks = up.h_blocks + (IF up.h_tries = 0 THEN 1 ELSE 0)
              \/ up'.rv = NUGGET_ERROR_RETRY /\ up.h_tries < 3 /\ up'.data = up.data
        /\ (SlotEnds /\ NewSlot.rv # APP_SUCCESS) =>
              /\ NewSlot.blocks = up.h_blocks + (IF up.h_tries = 0 THEN 1 ELSE 0)
              /\ NewSlot.rv \in BlockResults

\* C23: a block call that ends with NUGGET_ERROR_LOCKED, or with another
\* result that is not 0 and not absorbed by the retry, ends its slot with
\* that result and no further block of the slot is written.  When the device
\* answers NUGGET_ERROR_LOCKED to every block of slot A and APP_SUCCESS to
\* every block of slot B, slot A ends after exactly one block call, then
\* all blocks of slot B are written and do_update returns APP_SUCCESS.
C23_LockedAbortsSlot ==
    [][/\ BlockFailureEndsSlot
       /\ (StubAnswers /\ ~up.in_B) =>
             /\ up.h_blocks = 0 /\ up.h_tries = 0
             /\ NewSlot.blocks = 1 /\ NewSlot.rv = NUGGET_ERROR_LOCKED
             /\ ~UpdateEnds /\ up'.in_B
       /\ (StubAnswers /\ up.in_B) =>
             /\ NewSlot.blocks = Banks(NewSlot.size)
             /\ NewSlot.rv = APP_SUCCESS
             /\ UpdateEnds /\ up'.h_updates[Len(up'.h_updates)].rv = APP_SUCCESS]_vars

PasswordsGiven(j) ==
    IF up.h_sent[j].param = NUGGET_PARAM_CHANGE_UPDATE_PASSWORD
    THEN <<up.old_passwd, up.passwd>> ELSE <<up.passwd>>

StatusReturned == cl.str # NoString

InSpecificBucket ==
    cl.code >= APP_SPECIFIC_ERROR /\ cl.code < app_status.APP_LINE_NUMBER_BASE

InLineNumberBucket ==
    cl.code >= app_status.APP_LINE_NUMBER_BASE /\ cl.code < app_status.MAX_APP_STATUS

\* C25: StatusCodeString maps a code of the application-specific range to
\* "APP_SPECIFIC_ERROR + N" with N = code - APP_SPECIFIC_ERROR, a code of the
\* line-number range to the line-number form with N = code -
\* APP_LINE_NUMBER_BASE, and each named constant to its name; no N it prints
\* is a wrapped difference.
C25_StatusBuckets ==
    StatusReturned =>
        /\ cl.code = APP_SUCCESS => cl.str = String("APP_SUCCESS", <<>>)
        /\ cl.code = app_status.APP_ERROR_BOGUS_ARGS
               => cl.str = String("APP_ERROR_BOGUS_ARGS", <<>>)
        /\ cl.code = app_status.APP_ERROR_INTERNAL
               => cl.str = String("APP_ERROR_INTERNAL", <<>>)
        /\ cl.code = app_status.APP_ERROR_TOO_MUCH
               => cl.str = String("APP_ERROR_TOO_MUCH", <<>>)
        /\ cl.code = app_status.APP_ERROR_RPC => cl.str = String("APP_ERROR_RPC", <<>>)
        /\ InLineNumberBucket
               => cl.str = String("APP_LINE_NUMBER ",
                      <<to_string(u32(cl.code - app_status.APP_LINE_NUMBER_BASE))>>)
        /\ InSpecificBucket
               => /\ cl.str.literal = "APP_SPECIFIC_ERROR  + "
                  /\ cl.str.numbers[Len(cl.str.numbers)]
                         = to_string(u32(cl.code - APP_SPECIFIC_ERROR))
        /\ \A k \in 1 .. Len(cl.str.numbers) : cl.str.numbers[k][2] < 32768

(***************************************************************************)
(* The command line of the updater.                                        *)
(***************************************************************************)
\* the positional arguments main took for the purpose what
TakenFor(what) == {up.h_main[j][2] : j \in {k \in DOMAIN up.h_main : up.h_main[k][1] = what}}

\* C26: the positional arguments are taken in the order image, old password,
\* new password: the argument read as the image is used for nothing else, and
\* the passwords are arguments that follow it.
C26_PositionalOrder ==
    \A i \in TakenFor("image") :
        /\ \A o \in TakenFor("old_passwd") :
               /\ i < o
               /\ \A n \in TakenFor("passwd") : o < n
        /\ \A n \in TakenFor("passwd") : i < n

\* main has made no use of the device: execute_commands was not entered and no
\* call was sent
NoDeviceContact == ~up.h_executed /\ up.h_params = {} /\ up.h_sent = <<>>

\* C27: main exits with 0 and without contacting the device when no action
\* option is given, and exits with a non-zero code and without contacting the
\* device whenever the parsing of the options reported an error, whatever
\* other options are on the command line.
C27_ParseErrorExit ==
    up.pc = "exit" =>
        /\ ~up.h_parse.errors /\ ~up.h_parse.got_action
               => up.exit = 0 /\ NoDeviceContact
        /\ up.h_parse.errors => up.exit # 0 /\ NoDeviceContact

(***************************************************************************)
(* LinuxCitadelClient.                                                     *)
(***************************************************************************)
\* C28: isOpen() is true exactly when a device handle is held, and at most
\* one is; open() calls OpenDev only when no handle is held; close() gives
\* the held handle to CloseDev, once, and leaves isOpen() false; the
\* destructor releases a held handle, so that none is held when no instance
\* is left.
C28_HandleHeld ==
    /\ [](/\ isOpen(cl) <=> cl.h_held # {}
          /\ isOpen(cl) => cl.h_held = {cl.dev}
          /\ cl.alive = {} => cl.h_held = {}
          /\ \A j, k \in DOMAIN cl.h_closed : cl.h_closed[j] = cl.h_closed[k] => j = k)
    /\ [][/\ cl'.h_opendev # cl.h_opendev => cl.h_held = {}
          /\ cl'.h_closed # cl.h_closed
                => cl.h_held = {cl.dev} /\ cl'.h_closed = Append(cl.h_closed, cl.dev)
          /\ cl'.h_opendev = cl.h_opendev => ~isOpen(cl') \/ cl'.dev = cl.dev
          /\ cl'.alive # cl.alive /\ cl'.alive \subseteq cl.alive
                => ~isOpen(cl') /\ cl'.h_held = {}]_vars

\* a handle was released, a later one is held, and both instances called
\* open() since: the second of them without a call of OpenDev
C28_Witness ==
    /\ cl.h_opened = Instances
    /\ cl.h_held = {cl.dev}
    /\ Len(cl.h_closed) = 1
    /\ cl.h_opendev = 2

(***************************************************************************)
(* What nos_call_application returns.                                      *)
(***************************************************************************)
\* C29: nos_call_application never returns APP_ERROR_CHECKSUM: a call whose
\* third attempt polled APP_ERROR_CHECKSUM returns APP_ERROR_IO, and a call
\* that reaches the final clear-status write returns APP_SUCCESS.
C29_NoChecksumReturn ==
    /\ [](Returned => fr.res # APP_ERROR_CHECKSUM)
    /\ []((Returned /\ PolledCode(APP_ERROR_CHECKSUM) /\ fr.h_go = 3
              /\ fr.h_last = "status" /\ fr.h_gsret = GET_STATUS_OK)
            => fr.res = APP_ERROR_IO)
    /\ [](fr.pc = "final_clear" => PolledCode(APP_SUCCESS))
    /\ [][(fr.pc = "final_clear" /\ fr' # fr)
            => (fr'.pc = "returned" /\ fr'.res = APP_SUCCESS /\ fr'.h_last = "clear")]_vars

C29_Witness ==
    /\ Returned /\ fr.res = APP_ERROR_IO /\ PolledCode(APP_ERROR_CHECKSUM)
    /\ fr.h_go = 3 /\ fr.h_attempts = 3 /\ fr.h_last = "status"

\* C30: when nos_call_application returns a code other than APP_SUCCESS, the
\* caller's *reply_len has the value it had when the call was entered.
C30_ReplyLenKept ==
    (Returned /\ fr.res # APP_SUCCESS /\ ctx.reply_len) => fr.reply_len = fr.h_cap

(***************************************************************************)
(* What try_update returns.                                                *)
(***************************************************************************)
\* C31: try_update returns the result of the last flash-block call it made,
\* for every image_size, 0 included: a slot is reported as APP_SUCCESS, by
\* try_update and by do_update, only if at least one block call was made for
\* it and the last one returned APP_SUCCESS.
C31_ReturnsLastBlockResult ==
    /\ \A i \in DOMAIN up.h_slots :
          up.h_slots[i].rv = APP_SUCCESS => up.h_slots[i].blocks >= 1
    /\ \A j \in DOMAIN up.h_updates :
          up.h_updates[j].rv = APP_SUCCESS
            => LET tried == SlotsOf(up.h_updates[j].step)
               IN  /\ tried # <<>>
                   /\ tried[Len(tried)].rv = APP_SUCCESS
                   /\ tried[Len(tried)].blocks >= 1

(***************************************************************************)
(* Two instances of LinuxCitadelClient.                                    *)
(***************************************************************************)
\* C32: the open state an instance observes depends only on its own calls:
\* while an instance has called open() with success and has not called
\* close() since, its isOpen() is true, whatever open(), close() or
\* destruction happened on the other instance.
C32_InstancesIndependent ==
    \A x \in cl.alive : x \in cl.h_opened => isOpen(cl)

====
